---- MODULE Spec2Model ----
(***************************************************************************)
(* Model of the cheatcode-enabled call handler of                          *)
(* evm-adapters/src/sputnik/cheatcodes/cheatcode_handler.rs.               *)
(*                                                                         *)
(* The executor is single threaded; recursion through Handler::call is     *)
(* modelled by an explicit stack of running frames.  The EVM runtime, the  *)
(* precompile set and the storage backend are external: the runtime is a   *)
(* frame that may issue any call or exit with any reason, a value transfer *)
(* succeeds or fails as the backend decides.                               *)
(***************************************************************************)
EXTENDS Integers, Sequences, FiniteSets, TLC

VARIABLES
    expected_revert,   \* state.expected_revert : Option<Vec<u8>>
    next_msg_sender,   \* state.next_msg_sender : Option<H160>
    msg_sender,        \* state.msg_sender : Option<(H160, H160, usize)>
    depth,             \* state.metadata().depth() : Option<usize>
    console_logs,      \* CheatcodeHandler.console_logs : Vec<String>
    stack,             \* the running runtimes, outermost first
    aborted,           \* the executor panicked
    last,              \* history: the latest handler operation and its result
    consumed_last,     \* history: the latest dispatched call consumed a one-shot prank
    exp_at,            \* history: stack height at which the pending payload was set
    exp_seen,          \* history: calls that went through the dispatcher while the payload was pending
    gasometer,         \* state.metadata().gasometer() of the current substate: "ok" or "failed"
    parents,           \* the suspended substates, outermost first
    cheats,            \* state.backend.cheats : the clock overlay
    clock_asked,       \* history: the clock values the cheatcodes were given
    storage,           \* the storage the state answers with, by (address, slot)
    balance,           \* the balances the state answers with
    code,              \* the code the state answers with
    enable_ffi,        \* CheatcodeHandler.enable_ffi
    spawned,           \* the argument lists of the processes spawned so far
    logs,              \* state.substate.logs() : the structured events recorded
    nonce,             \* the account nonces the state answers with
    accessed           \* state.metadata().accessed : the addresses marked accessed

vars == <<expected_revert, next_msg_sender, msg_sender, depth, console_logs,
          stack, aborted, consumed_last, exp_at, exp_seen,
          gasometer, parents, cheats, clock_asked, storage, balance, code, enable_ffi,
          spawned, logs, nonce, accessed, last>>

(* The state kept in the stack state behind the handler, and the handler's  *)
(* own fields besides console_logs.                                         *)
world == <<cheats, storage, balance, code, enable_ffi, spawned, nonce, accessed>>

----------------------------------------------------------------------------
(* Option<T>: None is the empty tuple, Some(x) the one-element tuple.       *)
None == <<>>
Some(x) == <<x>>

(* Bounds of the model. *)
CallStackLimit == 1
MaxLogs == 2

(* u64::MAX of the gas counters, scaled down *)
MaxGas == 130

(* the creations an account may start *)
MaxNonce == 1

(* Addresses. *)
CHEATCODE_ADDRESS == "7109709ECfa91a80626fF3989D68f67F5b1DD12D"
CONSOLE_ADDRESS == "000000000000000000636F6e736F6c652e6c6f67"
PRECOMPILE_ADDRESS == "0000000000000000000000000000000000000001"
Address == {"C", "D", "X"}
Senders == {"X"}
Tests == {"C"}
Callees == {"D"}
PrankArgs == {"C", "X"}
Values == {1}

----------------------------------------------------------------------------
(* Byte strings and the ABI coding of a single `bytes` / `string` token.    *)

Zeros(n) == [i \in 1..n |-> 0]

DUMMY_OUTPUT == Zeros(320)

ERROR_SELECTOR == <<8, 195, 121, 160>>

(* A 32-byte big-endian word holding n < 2^32. *)
Word(n) ==
    Zeros(28) \o << (n \div 16777216) % 256, (n \div 65536) % 256,
                    (n \div 256) % 256, n % 256 >>

PadLen(n) == ((32 - (n % 32)) % 32)

(* ethers::abi::encode(&[Token::Bytes(b)]), also the layout of Token::String *)
AbiEncodeBytes(b) == Word(32) \o Word(Len(b)) \o b \o Zeros(PadLen(Len(b)))

(* peek_32_bytes: Err when the slice is out of range *)
Peek32(data, off) ==
    IF off + 32 <= Len(data) THEN Some(SubSeq(data, off + 1, off + 32)) ELSE None

(* as_usize: Err unless the upper 28 bytes are zero *)
AsUsize(w) ==
    IF \A i \in 1..28 : w[i] = 0
    THEN Some(w[29] * 16777216 + w[30] * 65536 + w[31] * 256 + w[32])
    ELSE None

(* ethers::abi::decode(&[ParamType::Bytes], data): None is Err *)
AbiDecodeBytes(data) ==
    IF Len(data) = 0 THEN None
    ELSE LET ow == Peek32(data, 0) IN
      IF ow = None THEN None
      ELSE LET off == AsUsize(ow[1]) IN
        IF off = None THEN None
        ELSE LET lw == Peek32(data, off[1]) IN
          IF lw = None THEN None
          ELSE LET len == AsUsize(lw[1]) IN
            IF len = None THEN None
            ELSE IF off[1] + 32 + len[1] > Len(data) THEN None
                 ELSE Some(SubSeq(data, off[1] + 32 + 1, off[1] + 32 + len[1]))

(* Message texts, one byte string each. *)
MsgDecode == <<100>>
MsgActiveStartPrank == <<101>>
MsgActivePrank == <<102>>
MsgSecondExpect == <<103>>
MsgDidNotRevert == <<104>>
MsgFfiDisabled == <<107>>
MsgSpawn == <<108>>
MsgHex == <<109>>
MsgZeroKey == <<110>>
MsgBadKey == <<111>>
MsgErrorNe(decoded, expected) == <<105>> \o decoded \o <<0>> \o expected
MsgDataNe(data, expected) == <<106>> \o data \o <<0>> \o expected

Result(reason, kind, output) == [reason |-> reason, kind |-> kind, output |-> output]

evm_error(retdata) == Result("Revert", "Reverted", AbiEncodeBytes(retdata))

Stopped(res) == Result("Succeed", "Stopped", res)

Panic == Result("Panic", "Panic", <<>>)

(* The payloads a test may expect and the data a callee may return. *)
Payloads == { <<1>>, ERROR_SELECTOR \o AbiEncodeBytes(<<1>>) }

ReturnData == { <<>>, <<1>> }

RevertData ==
    { <<1>>, ERROR_SELECTOR,
      ERROR_SELECTOR \o AbiEncodeBytes(<<1>>),
      ERROR_SELECTOR \o AbiEncodeBytes(<<2>>) }

----------------------------------------------------------------------------
(* Cheatcode engine: apply_cheatcode on the prank and expectRevert state.   *)

(* `if let Some(depth) = self.state().metadata().depth() { depth + 1 } else { 0 }` *)
DepthPlusOne_Same(d) == IF d # None THEN d[1] ELSE 0

DepthPlusOne(d) == IF d # None THEN d[1] + 1 ELSE 0

Ext(er, nms, ms) == [expected_revert |-> er, next_msg_sender |-> nms, msg_sender |-> ms]

Outcome(st, res) == [st |-> st, res |-> res]

(* HEVMCalls::Prank.  The pattern `Some((orginal_pranker, caller, depth))`  *)
(* rebinds `caller` to the impersonated address of the stored triple for    *)
(* the body of the `if let`; the assignment after it uses the argument.     *)
ApplyPrank(st, d, invoker, a) ==
    LET ms == st.msg_sender IN
    IF ms # None /\ DepthPlusOne(d) = ms[1][3] /\ ms[1][2] = ms[1][1]
    THEN Outcome(st, evm_error(MsgActiveStartPrank))
    ELSE Outcome([st EXCEPT !.next_msg_sender = Some(a)], Stopped(<<>>))

ApplyStartPrank_NoCheck(st, d, invoker, a) ==
    Outcome([st EXCEPT !.msg_sender = Some(<<invoker, a, DepthPlusOne(d)>>)], Stopped(<<>>))

(* HEVMCalls::StartPrank *)
ApplyStartPrank(st, d, invoker, a) ==
    IF st.next_msg_sender # None
    THEN Outcome(st, evm_error(MsgActivePrank))
    ELSE Outcome([st EXCEPT !.msg_sender = Some(<<invoker, a, DepthPlusOne(d)>>)],
                 Stopped(<<>>))

(* HEVMCalls::StopPrank *)
ApplyStopPrank(st) == Outcome([st EXCEPT !.msg_sender = None], Stopped(<<>>))

ApplyExpectRevert_Overwrite(st, e) ==
    Outcome([st EXCEPT !.expected_revert = Some(e)], Stopped(<<>>))

ApplyExpectRevert_ClearOnReject(st, e) ==
    IF st.expected_revert # None
    THEN Outcome([st EXCEPT !.expected_revert = None], evm_error(MsgSecondExpect))
    ELSE Outcome([st EXCEPT !.expected_revert = Some(e)], Stopped(<<>>))

(* HEVMCalls::ExpectRevert *)
ApplyExpectRevert(st, e) ==
    IF st.expected_revert # None
    THEN Outcome(st, evm_error(MsgSecondExpect))
    ELSE Outcome([st EXCEPT !.expected_revert = Some(e)], Stopped(<<>>))

(* The stack state and the handler fields a cheatcode works on. *)
State(ext, ch, sto, bal, cod, ffi, sp) ==
    [expected_revert |-> ext.expected_revert, next_msg_sender |-> ext.next_msg_sender,
     msg_sender |-> ext.msg_sender, cheats |-> ch, storage |-> sto, balance |-> bal,
     code |-> cod, enable_ffi |-> ffi, spawned |-> sp]

(* Addresses, slots and values the state cheatcodes are tried on. *)
StoreAddrs == {"C", "D"}
Slots == {0, 1}
SlotValues == {0, 1}
DealValues == {0, 2}
ClockValues == {1, 2}
Codes == {<<>>, <<1>>}

ApplyWarp_Roll(st, t) ==
    Outcome([st EXCEPT !.cheats.block_number = Some(t)], Stopped(<<>>))

(* HEVMCalls::Warp *)
ApplyWarp(st, t) ==
    Outcome([st EXCEPT !.cheats.block_timestamp = Some(t)], Stopped(<<>>))

(* HEVMCalls::Roll *)
ApplyRoll(st, n) ==
    Outcome([st EXCEPT !.cheats.block_number = Some(n)], Stopped(<<>>))

(* HEVMCalls::Fee *)
ApplyFee(st, f) ==
    Outcome([st EXCEPT !.cheats.block_base_fee_per_gas = Some(f)], Stopped(<<>>))

(* state.set_storage(address, index, value) *)
SetStorage(sto, a, k, v) == [sto EXCEPT ![<<a, k>>] = v]

(* state.storage(address, index) *)
GetStorage(sto, a, k) == sto[<<a, k>>]

ApplyStore_Swapped(st, a, k, v) ==
    Outcome([st EXCEPT !.storage = SetStorage(@, a, v, k)], Stopped(<<>>))

(* HEVMCalls::Store *)
ApplyStore(st, a, k, v) ==
    Outcome([st EXCEPT !.storage = SetStorage(@, a, k, v)], Stopped(<<>>))

(* HEVMCalls::Load: `res = state.storage(..).0.to_vec()`, the 32 bytes of the slot *)
ApplyLoad(st, a, k) == Outcome(st, Stopped(Word(GetStorage(st.storage, a, k))))

(* state.reset_balance(who) *)
ResetBalance(bal, who) == [bal EXCEPT ![who] = 0]

(* state.deposit(who, value) *)
Deposit(bal, who, value) == [bal EXCEPT ![who] = @ + value]

ApplyDeal_NoReset(st, who, value) ==
    Outcome([st EXCEPT !.balance = Deposit(@, who, value)], Stopped(<<>>))

(* HEVMCalls::Deal *)
ApplyDeal(st, who, value) ==
    Outcome([st EXCEPT !.balance = Deposit(ResetBalance(@, who), who, value)], Stopped(<<>>))

ApplyEtch_All(st, who, c) == Outcome([st EXCEPT !.code = [a \in DOMAIN @ |-> c]], Stopped(<<>>))

(* HEVMCalls::Etch: state.set_code(who, code) *)
ApplyEtch(st, who, c) == Outcome([st EXCEPT !.code = [@ EXCEPT ![who] = c]], Stopped(<<>>))

(* The characters a process may write, and hex::decode on them: None is Err  *)
(* (odd length or a character that is no hex digit).                         *)
HexDigits == <<"0", "1", "2", "3", "4", "5", "6", "7", "8", "9",
               "a", "b", "c", "d", "e", "f">>

IsHexDigit(c) == \E i \in 1..16 : HexDigits[i] = c

HexValue(c) == (CHOOSE i \in 1..16 : HexDigits[i] = c) - 1

HexDecode(s) ==
    IF Len(s) % 2 # 0 THEN None
    ELSE IF \E i \in 1..Len(s) : ~IsHexDigit(s[i]) THEN None
    ELSE Some([i \in 1..(Len(s) \div 2) |->
                 16 * HexValue(s[2 * i - 1]) + HexValue(s[2 * i])])

(* What the process of an ffi call does: whether it can be spawned and what  *)
(* it writes to stdout.                                                      *)
FfiArgs == {<<>>, <<"echo">>}

Stdouts ==
    { <<>>, <<"0">>, <<"0", "x">>, <<"0", "x", "0", "a">>, <<"0", "x", "a">>,
      <<"0", "x", "g", "0">>, <<"z", "z", "0", "1">> }

ApplyFfi_NoGate(st, arg) ==
    IF Len(arg.args) = 0 THEN Outcome(st, Panic)
    ELSE IF ~arg.spawnOk THEN Outcome(st, evm_error(MsgSpawn))
    ELSE Outcome([st EXCEPT !.spawned = @ \cup {arg.args}], Stopped(<<>>))

(* HEVMCalls::Ffi.  `&args[0]` and `&output[2..]` panic out of range.        *)
ApplyFfi(st, arg) ==
    IF ~st.enable_ffi THEN Outcome(st, evm_error(MsgFfiDisabled))
    ELSE IF Len(arg.args) = 0 THEN Outcome(st, Panic)
    ELSE IF ~arg.spawnOk THEN Outcome(st, evm_error(MsgSpawn))
    ELSE LET ran == [st EXCEPT !.spawned = @ \cup {arg.args}] IN
         IF Len(arg.stdout) < 2 THEN Outcome(ran, Panic)
         ELSE LET decoded == HexDecode(SubSeq(arg.stdout, 3, Len(arg.stdout))) IN
              IF decoded = None THEN Outcome(ran, evm_error(MsgHex))
              ELSE Outcome(ran, Stopped(AbiEncodeBytes(decoded[1])))

(* Private keys: zero, one inside the secp256k1 order, one outside it. *)
PrivateKeys == {"zero", "valid", "out_of_range"}

(* HEVMCalls::Addr: the ABI-encoded address of the key *)
ApplyAddr(st, sk) ==
    IF sk = "zero" THEN Outcome(st, evm_error(MsgZeroKey))
    ELSE IF sk = "out_of_range" THEN Outcome(st, evm_error(MsgBadKey))
    ELSE Outcome(st, Stopped(Word(1)))

(* HEVMCalls::Sign: the ABI-encoded (v, r, s) *)
ApplySign(st, sk) ==
    IF sk = "zero" THEN Outcome(st, evm_error(MsgZeroKey))
    ELSE IF sk = "out_of_range" THEN Outcome(st, evm_error(MsgBadKey))
    ELSE Outcome(st, Stopped(Word(27) \o Word(1) \o Word(1)))

(* The decoded inputs of a call to the cheatcode address; "Bad" does not decode. *)
PrankInputs == [op : {"Prank", "StartPrank"}, arg : PrankArgs]

ExpectInputs == [op : {"ExpectRevert"}, arg : Payloads]

PlainInputs == [op : {"StopPrank", "Bad"}, arg : {<<>>}]

ClockInputs == [op : {"Warp", "Roll", "Fee"}, arg : ClockValues]

StoreInputs == [op : {"Store"}, arg : [a : StoreAddrs, k : Slots, v : SlotValues]]

LoadInputs == [op : {"Load"}, arg : [a : StoreAddrs, k : Slots]]

DealInputs == [op : {"Deal"}, arg : [a : StoreAddrs, v : DealValues]]

EtchInputs == [op : {"Etch"}, arg : [a : StoreAddrs, c : Codes]]

FfiInputs == [op : {"Ffi"}, arg : [args : FfiArgs, spawnOk : BOOLEAN, stdout : Stdouts]]

KeyInputs == [op : {"Addr", "Sign"}, arg : PrivateKeys]

apply_cheatcode(st, d, input, invoker) ==
    CASE input.op = "Bad" -> Outcome(st, evm_error(MsgDecode))
      [] input.op = "Prank" -> ApplyPrank(st, d, invoker, input.arg)
      [] input.op = "StartPrank" -> ApplyStartPrank(st, d, invoker, input.arg)
      [] input.op = "StopPrank" -> ApplyStopPrank(st)
      [] input.op = "ExpectRevert" -> ApplyExpectRevert(st, input.arg)
      [] input.op = "Warp" -> ApplyWarp(st, input.arg)
      [] input.op = "Roll" -> ApplyRoll(st, input.arg)
      [] input.op = "Fee" -> ApplyFee(st, input.arg)
      [] input.op = "Store" -> ApplyStore(st, input.arg.a, input.arg.k, input.arg.v)
      [] input.op = "Load" -> ApplyLoad(st, input.arg.a, input.arg.k)
      [] input.op = "Deal" -> ApplyDeal(st, input.arg.a, input.arg.v)
      [] input.op = "Etch" -> ApplyEtch(st, input.arg.a, input.arg.c)
      [] input.op = "Ffi" -> ApplyFfi(st, input.arg)
      [] input.op = "Addr" -> ApplyAddr(st, input.arg)
      [] input.op = "Sign" -> ApplySign(st, input.arg)

----------------------------------------------------------------------------
(* Intercept dispatcher: the rewrites of Handler::call.                     *)

Context(address, caller, value) ==
    [address |-> address, caller |-> caller, apparent_value |-> value]

Transfer(source, target, value) == [source |-> source, target |-> target, value |-> value]

Rewritten(ctx, transfer) == [ctx |-> ctx, transfer |-> transfer]

SetCaller(ctx, transfer, caller) ==
    Rewritten([ctx EXCEPT !.caller = caller],
              IF transfer # None
              THEN Some(Transfer(caller, transfer[1].target, transfer[1].value))
              ELSE None)

(* `curr_depth == depth && new_context.caller == original_msg_sender` *)
StartPrankApplies(ms, d, caller) ==
    ms # None /\ DepthPlusOne(d) = ms[1][3] /\ caller = ms[1][1]

(* handle `startPrank` *)
PersistentRewrite(ms, d, ctx, transfer) ==
    IF StartPrankApplies(ms, d, ctx.caller)
    THEN SetCaller(ctx, transfer, ms[1][2])
    ELSE Rewritten(ctx, transfer)

(* handle normal `prank`: next_msg_sender.take() *)
OneShotRewrite(nms, ctx, transfer) ==
    IF nms # None THEN SetCaller(ctx, transfer, nms[1]) ELSE Rewritten(ctx, transfer)

RewriteCall_OneShotFirst(ms, nms, d, ctx, transfer) ==
    LET o == OneShotRewrite(nms, ctx, transfer)
    IN PersistentRewrite(ms, d, o.ctx, o.transfer)

(* Handler::call: `startPrank` is handled first, the normal `prank` second *)
RewriteCall(ms, nms, d, ctx, transfer) ==
    LET p == PersistentRewrite(ms, d, ctx, transfer)
    IN OneShotRewrite(nms, p.ctx, p.transfer)

TakeNextMsgSender_Keep(nms) == nms

(* self.state_mut().next_msg_sender.take(): what stays in the state *)
TakeNextMsgSender(nms) == None

TakeExpectedRevert_Keep(er) == er

(* self.state_mut().expected_revert.take(): what stays in the state *)
TakeExpectedRevert(er) == None

(* The comparison of the result of call_inner with a taken payload.         *)
MatchExpectedRevert_Native(res, expected) ==
    IF res.reason = "Revert" /\ res.output = expected[1]
    THEN Result("Succeed", "Returned", DUMMY_OUTPUT)
    ELSE IF res.reason = "Error" THEN res
    ELSE evm_error(MsgDidNotRevert)

MatchExpectedRevert(res, expected) ==
    IF res.reason = "Revert"
    THEN IF Len(res.output) >= 4 /\ SubSeq(res.output, 1, 4) = ERROR_SELECTOR
         THEN LET decoded == AbiDecodeBytes(SubSeq(res.output, 5, Len(res.output))) IN
              IF decoded = None THEN Panic
              ELSE IF decoded[1] = expected[1]
                   THEN Result("Succeed", "Returned", DUMMY_OUTPUT)
                   ELSE evm_error(MsgErrorNe(decoded[1], expected[1]))
         ELSE IF res.output = expected[1]
              THEN Result("Succeed", "Returned", DUMMY_OUTPUT)
              ELSE evm_error(MsgDataNe(res.output, expected[1]))
    ELSE evm_error(MsgDidNotRevert)

ExpectedRevertResult_Default(res, expected) ==
    MatchExpectedRevert(res, IF expected = None THEN Some(<<>>) ELSE expected)

(* `if let Some(expected_revert) = expected_revert { .. } else { res }` *)
ExpectedRevertResult(res, expected) ==
    IF expected = None THEN res ELSE MatchExpectedRevert(res, expected)

----------------------------------------------------------------------------
(* Call core: call_inner around the runtime.                                *)

(* enter_substate: the depth of the child substate *)
EnterSubstate(d) == IF d = None THEN Some(0) ELSE Some(d[1] + 1)

(* exit_substate: back to the parent's depth *)
ExitSubstate(d) == IF d[1] = 0 THEN None ELSE Some(d[1] - 1)

PrecompileResults == {"Ok", "Error", "Revert", "Fatal"}

(* call_inner between enter_substate and the runtime: Some(result) when it  *)
(* returns without running code, None when the runtime is started.          *)
CallInnerEarly(child, code_address, transfer, transferOk, pre) ==
    IF child[1] > CallStackLimit
    THEN Some(Result("Error", "CallTooDeep", <<>>))
    ELSE IF transfer # None /\ ~transferOk
    THEN Some(Result("Error", "OutOfFund", <<>>))
    ELSE IF code_address = PRECOMPILE_ADDRESS
    THEN Some(CASE pre = "Ok" -> Result("Succeed", "Returned", <<1>>)
                [] pre = "LogError" -> Result("Error", "Other", <<1>>)
                [] pre = "Error" -> Result("Error", "Other", <<>>)
                [] pre = "Revert" -> Result("Revert", "Reverted", <<>>)
                [] pre = "Fatal" -> Result("Fatal", "Other", <<>>))
    ELSE None

PrecompileOutcomes == PrecompileResults \cup {"LogError"}

(* call_inner between enter_substate and the runtime: the kind of the       *)
(* exit_substate before the return, "Kept" when there is none.              *)
CallInnerEarlyKind(child, code_address, transfer, transferOk, pre) ==
    IF child[1] > CallStackLimit THEN "Reverted"
    ELSE IF transfer # None /\ ~transferOk THEN "Reverted"
    ELSE CASE pre = "Ok" -> "Succeeded"
           [] pre = "LogError" -> "Kept"
           [] OTHER -> "Failed"

(* The exits of the runtime. *)
RuntimeExits ==
    [reason : {"Succeed"}, kind : {"Returned"}, data : ReturnData]
      \cup [reason : {"Revert"}, kind : {"Reverted"}, data : RevertData]
      \cup [reason : {"Error"}, kind : {"OutOfGas"}, data : {<<>>}]
      \cup [reason : {"Fatal"}, kind : {"NotSupported"}, data : {<<>>}]

(* call_inner: `match reason` *)
CallInnerExit(exit) ==
    CASE exit.reason = "Succeed" -> Result("Succeed", exit.kind, exit.data)
      [] exit.reason = "Error" -> Result("Error", exit.kind, <<>>)
      [] exit.reason = "Revert" -> Result("Revert", exit.kind, exit.data)
      [] exit.reason = "Fatal" -> Result("Fatal", exit.kind, <<>>)

----------------------------------------------------------------------------
(* The executor as a state machine.                                         *)

NoOp == [kind |-> "none"]

(* The accounts of the backend: the known addresses and the address of a   *)
(* contract to be created.                                                  *)
Accounts == Address \cup {"N"}

(* What the wrapped backend answers. *)
WrappedClock ==
    [block_timestamp |-> 100, block_number |-> 200, block_base_fee_per_gas |-> 300]

NoCheats ==
    [block_timestamp |-> None, block_number |-> None, block_base_fee_per_gas |-> None]

(* new_with_cheatcodes(.., enable_ffi) *)
Construct(ffi) ==
    /\ expected_revert = None
    /\ next_msg_sender = None
    /\ msg_sender = None
    /\ depth = None
    /\ console_logs = <<>>
    /\ stack = <<>>
    /\ aborted = FALSE
    /\ last = NoOp
    /\ consumed_last = FALSE
    /\ exp_at = 0
    /\ exp_seen = "none"
    /\ gasometer = "ok"
    /\ parents = <<>>
    /\ cheats = NoCheats
    /\ clock_asked = NoCheats
    /\ storage = [c \in Accounts \X Slots |-> 0]
    /\ balance = [a \in Accounts |-> 1]
    /\ code = [a \in Accounts |-> IF a \in Address THEN <<1>> ELSE <<>>]
    /\ enable_ffi = ffi
    /\ spawned = {}
    /\ logs = <<>>
    /\ nonce = [a \in Accounts |-> 0]
    /\ accessed = {}

Init == Construct(FALSE)

InitFfi == \E ffi \in BOOLEAN : Construct(ffi)

Top == stack[Len(stack)]

Running == ~aborted /\ stack # <<>>

(* A running runtime: its context, and the locals of the Handler::call that  *)
(* started it (`expected_revert`); plain, expAt and expSeen are history.    *)
(* hooked: the handler the runtime runs against is the cheatcode handler.   *)
Frame(via, ctx, expected, plain, expAt, expSeen, hooked) ==
    [via |-> via, ctx |-> ctx, expected |-> expected, plain |-> plain, expAt |-> expAt,
     expSeen |-> expSeen, hooked |-> hooked]

(* A value transfer of zero never fails in the backend. *)
TransferOks(v) == IF v = 0 THEN {TRUE} ELSE BOOLEAN

(* What a substate holds apart from its gasometer. *)
Substate ==
    [storage |-> storage, balance |-> balance, code |-> code, logs |-> logs,
     nonce |-> nonce, accessed |-> accessed]

SuspendWith_Entering(n, acc) ==
    Append(parents, [gasometer |-> gasometer, saved |-> Substate])

(* enter_substate: the parent is suspended, with what it holds at that time *)
SuspendWith(n, acc) ==
    Append(parents, [gasometer |-> gasometer,
                     saved |-> [Substate EXCEPT !.nonce = n, !.accessed = acc]])

Suspend == SuspendWith(nonce, accessed)

(* state_mut().inc_nonce(address) *)
inc_nonce(n, address) == [n EXCEPT ![address] = @ + 1]

ExitState_RevertCommits(kind, saved) ==
    IF kind \in {"Succeeded", "Reverted"} THEN Substate ELSE saved

(* exit_substate(kind): what the state holds afterwards *)
ExitState(kind, saved) == IF kind = "Succeeded" THEN Substate ELSE saved

(* gasometer.record_cost(..): Err once the gasometer has failed, and when   *)
(* the cost is not covered.                                                 *)
RecordCosts == IF gasometer = "failed" THEN {FALSE} ELSE BOOLEAN

(* The gasometer of the caller's substate, in numbers. *)
Gasometer(gas_limit, used_gas, failed) ==
    [gas_limit |-> gas_limit, used_gas |-> used_gas, failed |-> failed]

(* gasometer().gas(): nothing is left once the gasometer has failed *)
GasOf(gm) == IF gm.failed THEN 0 ELSE gm.gas_limit - gm.used_gas

(* gasometer_mut().record_cost(cost) *)
RecordCost(gm, cost) ==
    IF gm.failed \/ gm.gas_limit < gm.used_gas + cost
    THEN [gm |-> [gm EXCEPT !.failed = TRUE], ok |-> FALSE]
    ELSE [gm |-> [gm EXCEPT !.used_gas = @ + cost], ok |-> TRUE]

l64_Floor(gas) == gas \div 64

(* fn l64(gas: u64) -> u64 *)
l64(gas) == gas - gas \div 64

Min(a, b) == IF a < b THEN a ELSE b

(* u64::saturating_add *)
saturating_add(a, b) == IF a + b > MaxGas THEN MaxGas ELSE a + b

GasConfig(call_l64_after_gas, estimate, call_stipend) ==
    [call_l64_after_gas |-> call_l64_after_gas, estimate |-> estimate,
     call_stipend |-> call_stipend]

CallInnerGas_StipendFirst(gm, target_gas, take_l64, take_stipend, config, transfer) ==
    LET wants == take_l64 /\ config.call_l64_after_gas
        initial_after_gas == GasOf(gm)
        diff == initial_after_gas - l64(initial_after_gas)
        first == IF wants /\ config.estimate
                 THEN RecordCost(gm, diff)
                 ELSE [gm |-> gm, ok |-> TRUE]
        after_gas == IF wants
                     THEN IF config.estimate THEN GasOf(first.gm) ELSE l64(GasOf(gm))
                     ELSE GasOf(gm)
        target == IF target_gas # None THEN target_gas[1] ELSE after_gas
        stipend == transfer # None /\ take_stipend /\ transfer[1].value # 0
        gas_limit == IF stipend
                     THEN saturating_add(Min(target, after_gas), config.call_stipend)
                     ELSE Min(target, after_gas)
        second == RecordCost(first.gm, gas_limit)
    IN IF ~first.ok
       THEN [ok |-> FALSE, before |-> gm, gm |-> first.gm, recorded |-> <<>>]
       ELSE IF ~second.ok
       THEN [ok |-> FALSE, before |-> gm, gm |-> second.gm,
             recorded |-> IF wants /\ config.estimate THEN <<diff>> ELSE <<>>]
       ELSE [ok |-> TRUE, before |-> gm, gm |-> second.gm,
             recorded |-> IF wants /\ config.estimate
                          THEN <<diff, gas_limit>> ELSE <<gas_limit>>,
             after_gas |-> after_gas, gas_limit |-> Min(target, after_gas),
             stipend |-> stipend, entered |-> gas_limit]

(* call_inner up to enter_substate: after_gas, gas_limit, the costs          *)
(* recorded against the caller's gasometer, and the limit the substate is   *)
(* entered with.  ok = FALSE: try_or_fail! returned the gasometer's error.  *)
CallInnerGas(gm, target_gas, take_l64, take_stipend, config, transfer) ==
    LET wants == take_l64 /\ config.call_l64_after_gas
        initial_after_gas == GasOf(gm)
        diff == initial_after_gas - l64(initial_after_gas)
        first == IF wants /\ config.estimate
                 THEN RecordCost(gm, diff)
                 ELSE [gm |-> gm, ok |-> TRUE]
        after_gas == IF wants
                     THEN IF config.estimate THEN GasOf(first.gm) ELSE l64(GasOf(gm))
                     ELSE GasOf(gm)
        target == IF target_gas # None THEN target_gas[1] ELSE after_gas
        gas_limit == Min(target, after_gas)
        second == RecordCost(first.gm, gas_limit)
        stipend == transfer # None /\ take_stipend /\ transfer[1].value # 0
    IN IF ~first.ok
       THEN [ok |-> FALSE, before |-> gm, gm |-> first.gm, recorded |-> <<>>]
       ELSE IF ~second.ok
       THEN [ok |-> FALSE, before |-> gm, gm |-> second.gm,
             recorded |-> IF wants /\ config.estimate THEN <<diff>> ELSE <<>>]
       ELSE [ok |-> TRUE, before |-> gm, gm |-> second.gm,
             recorded |-> IF wants /\ config.estimate
                          THEN <<diff, gas_limit>> ELSE <<gas_limit>>,
             after_gas |-> after_gas, gas_limit |-> gas_limit,
             stipend |-> stipend,
             entered |-> IF stipend
                         THEN saturating_add(gas_limit, config.call_stipend)
                         ELSE gas_limit]

(* A metered call: the caller's gasometer, the gas the caller offers and    *)
(* the configuration, in numbers.                                           *)
Meter(gm, target_gas, config) == [gm |-> gm, target_gas |-> target_gas, config |-> config]

(* The whole of call_inner when it returns without running code:            *)
(* Some([res, kind]) with the substate exit kind ("NotEntered" before       *)
(* enter_substate, "Kept" when the substate is not exited), None when the    *)
(* runtime is started.                                                      *)
CallInnerReturn(code_address, transfer, transferOk, pre, gasOk) ==
    LET early == CallInnerEarly(EnterSubstate(depth), code_address, transfer, transferOk, pre)
    IN IF ~gasOk
       THEN Some([res |-> Result("Error", "OutOfGas", <<>>), kind |-> "NotEntered"])
       ELSE IF early = None THEN None
       ELSE Some([res |-> early[1],
                  kind |-> CallInnerEarlyKind(EnterSubstate(depth), code_address, transfer,
                                              transferOk, pre)])

(* state_mut().transfer(transfer): the balances after a transfer that went  *)
(* through                                                                  *)
Moved(bal, transfer) ==
    IF transfer = None THEN bal
    ELSE [bal EXCEPT ![transfer[1].source] = @ - transfer[1].value,
                     ![transfer[1].target] = @ + transfer[1].value]

(* The state after call_inner returned r without running code. *)
(* n, acc: the nonces and the accessed addresses when call_inner is entered *)
(* bal: the balances after the transfer, which stay when the substate is    *)
(* committed or kept                                                        *)
ReturnedMoving(r, n, acc, bal) ==
    /\ gasometer' = IF r.kind = "NotEntered" THEN "failed" ELSE gasometer
    /\ IF r.kind = "Kept"
       THEN /\ depth' = EnterSubstate(depth)
            /\ parents' = SuspendWith(n, acc)
       ELSE UNCHANGED <<depth, parents>>
    /\ nonce' = n
    /\ accessed' = acc
    /\ balance' = IF r.kind \in {"Succeeded", "Kept"} THEN bal ELSE balance
    /\ UNCHANGED <<stack, storage, code, logs>>

ReturnedWith(r, n, acc) == ReturnedMoving(r, n, acc, balance)

Returned(r) == ReturnedWith(r, nonce, accessed)

(* The state when call_inner starts the runtime of frame f. *)
(* n, acc: the nonces and the accessed addresses when the substate is       *)
(* entered; inside: the nonces when the runtime starts                      *)
(* bal: the balances when the runtime starts                                 *)
StartedMoving(f, n, acc, inside, bal) ==
    /\ stack' = Append(stack, f)
    /\ depth' = EnterSubstate(depth)
    /\ parents' = SuspendWith(n, acc)
    /\ gasometer' = "ok"
    /\ nonce' = inside
    /\ accessed' = acc
    /\ balance' = bal
    /\ UNCHANGED <<storage, code, logs>>

StartedWith(f, n, acc, inside) == StartedMoving(f, n, acc, inside, balance)

Started(f) == StartedWith(f, nonce, accessed, nonce)

TransactEntry_Dispatched(caller, address, value, ms, nms, er, d) ==
    LET o == RewriteCall(ms, nms, d, Context(address, caller, value),
                         Some(Transfer(caller, address, value)))
    IN [code_address |-> address, ctx |-> o.ctx, transfer |-> o.transfer,
        take_l64 |-> TRUE, take_stipend |-> TRUE,
        expected |-> er,
        expected_revert |-> TakeExpectedRevert(er),
        next_msg_sender |-> TakeNextMsgSender(nms)]

(* transact_call: what it hands to call_inner, and what it leaves of the    *)
(* extension fields.  The context and the transfer are the transaction's,   *)
(* take_l64 and take_stipend are false, and nothing is taken from          *)
(* expected_revert or next_msg_sender.                                      *)
TransactEntry(caller, address, value, ms, nms, er, d) ==
    [code_address |-> address, ctx |-> Context(address, caller, value),
     transfer |-> Some(Transfer(caller, address, value)),
     take_l64 |-> FALSE, take_stipend |-> FALSE,
     expected |-> None,
     expected_revert |-> er,
     next_msg_sender |-> nms]

(* transact_call.  txOk: record_transaction(transaction_cost) returned Ok;  *)
(* when it did not, the error is returned before anything else is done.     *)
(* meter: None, or Some(Meter(..)) when the gas is followed in numbers.      *)
TransactCallRecorded(caller, address, value, transferOk, pre, meter, txOk) ==
    /\ ~aborted
    /\ stack = <<>>
    /\ txOk \in RecordCosts
    /\ txOk => nonce[caller] < MaxNonce
    /\ meter # None => meter[1].gm.failed = (gasometer = "failed")
    /\ IF ~txOk
       THEN /\ last' = [kind |-> "transact_refused",
                         res |-> Result("Error", "OutOfGas", <<>>),
                         caller |-> caller, address |-> address]
            /\ gasometer' = "failed"
            /\ UNCHANGED <<expected_revert, next_msg_sender, stack, depth, parents,
                           storage, balance, code, logs, nonce, accessed>>
       ELSE
         LET e == TransactEntry(caller, address, value, msg_sender, next_msg_sender,
                                expected_revert, depth)
             gas == IF meter = None THEN None
                    ELSE Some(CallInnerGas(meter[1].gm, meter[1].target_gas,
                                           e.take_l64, e.take_stipend,
                                           meter[1].config, e.transfer))
             r == CallInnerReturn(e.code_address, e.transfer, transferOk, pre,
                                  gas = None \/ gas[1].ok)
         IN /\ expected_revert' = e.expected_revert
            /\ next_msg_sender' = e.next_msg_sender
            /\ IF r # None
               THEN /\ last' = IF gas = None
                               THEN [kind |-> "transact", res |-> r[1].res,
                                     exited |-> r[1].kind,
                                     caller |-> caller, address |-> address, entry |-> e]
                               ELSE [kind |-> "transact", res |-> r[1].res,
                                     exited |-> r[1].kind,
                                     caller |-> caller, address |-> address, entry |-> e,
                                     take_l64 |-> e.take_l64,
                                     take_stipend |-> e.take_stipend,
                                     transfer |-> e.transfer, meter |-> meter[1],
                                     gas |-> gas[1]]
                    /\ ReturnedWith(r[1], inc_nonce(nonce, caller),
                                    accessed \cup {caller, address})
               ELSE /\ StartedWith(Frame("top", e.ctx, e.expected, FALSE, 0, "none", TRUE),
                                   inc_nonce(nonce, caller),
                                   accessed \cup {caller, address},
                                   inc_nonce(nonce, caller))
                    /\ last' = IF gas = None
                               THEN [kind |-> "transact_enter",
                                     caller |-> caller, address |-> address, entry |-> e]
                               ELSE [kind |-> "transact_enter",
                                     caller |-> caller, address |-> address, entry |-> e,
                                     take_l64 |-> e.take_l64,
                                     take_stipend |-> e.take_stipend,
                                     transfer |-> e.transfer, meter |-> meter[1],
                                     gas |-> gas[1]]
    /\ UNCHANGED <<msg_sender, console_logs, aborted, consumed_last, exp_at, exp_seen,
                   cheats, clock_asked, enable_ffi, spawned>>

(* The first transaction of an executor, whose cost was recorded. *)
TransactCallMetered(caller, address, value, transferOk, pre, meter) ==
    /\ last = NoOp
    /\ TransactCallRecorded(caller, address, value, transferOk, pre, meter, TRUE)

TransactCall(caller, address, value, transferOk, pre) ==
    TransactCallMetered(caller, address, value, transferOk, pre, None)

(* history: the pending payload has now seen a call to a reserved address *)
SeenReserved(er, seen) ==
    IF er = None THEN "none" ELSE IF seen = "call" THEN "call" ELSE "reserved"

(* history: the clock values the test has asked for *)
ClockAsked(asked, input, res) ==
    IF res.reason # "Succeed" THEN asked
    ELSE CASE input.op = "Warp" -> [asked EXCEPT !.block_timestamp = Some(input.arg)]
           [] input.op = "Roll" -> [asked EXCEPT !.block_number = Some(input.arg)]
           [] input.op = "Fee" -> [asked EXCEPT !.block_base_fee_per_gas = Some(input.arg)]
           [] OTHER -> asked

(* Handler::call with code_address == CHEATCODE_ADDRESS *)
CheatcodeCall(input, delegate) ==
    /\ Running
    /\ Top.hooked
    /\ LET invoker == IF delegate THEN Top.ctx.caller ELSE Top.ctx.address
           out == apply_cheatcode(State(Ext(expected_revert, next_msg_sender, msg_sender),
                                        cheats, storage, balance, code, enable_ffi, spawned),
                                  depth, input, invoker)
           set == out.st.expected_revert # expected_revert
       IN /\ expected_revert' = out.st.expected_revert
          /\ next_msg_sender' = out.st.next_msg_sender
          /\ msg_sender' = out.st.msg_sender
          /\ cheats' = out.st.cheats
          /\ storage' = out.st.storage
          /\ balance' = out.st.balance
          /\ code' = out.st.code
          /\ spawned' = out.st.spawned
          /\ aborted' = (out.res = Panic)
          /\ last' = [kind |-> "cheat", input |-> input, invoker |-> invoker,
                      res |-> out.res]
          /\ consumed_last' =
               (consumed_last /\ ~(input.op \in {"Prank", "StartPrank"}
                                    /\ out.res.reason = "Succeed"))
          /\ exp_at' = IF set THEN Len(stack) ELSE exp_at
          /\ exp_seen' = IF set THEN "none" ELSE SeenReserved(expected_revert, exp_seen)
          /\ clock_asked' = ClockAsked(clock_asked, input, out.res)
    /\ UNCHANGED <<depth, console_logs, stack, gasometer, parents, enable_ffi, logs,
                   nonce, accessed>>

(* The texts a console call may decode to. *)
ConsoleTexts == {"a", "b"}

console_log_PushAlways(lines, decodes, text) ==
    [lines |-> Append(lines, text),
     res |-> IF decodes THEN Stopped(<<>>) ELSE evm_error(MsgDecode)]

(* console_log: `self.console_logs.push(decoded.to_string())` after the     *)
(* decode, evm_error when the input does not decode                         *)
console_log(lines, decodes, text) ==
    IF decodes
    THEN [lines |-> Append(lines, text), res |-> Stopped(<<>>)]
    ELSE [lines |-> lines, res |-> evm_error(MsgDecode)]

(* Handler::call with code_address == CONSOLE_ADDRESS *)
ConsoleCall(decodes, text) ==
    /\ Running
    /\ Top.hooked
    /\ decodes => Len(console_logs) < MaxLogs
    /\ LET out == console_log(console_logs, decodes, text)
       IN /\ console_logs' = out.lines
          /\ last' = [kind |-> "console", decodes |-> decodes, text |-> text,
                      res |-> out.res]
    /\ exp_seen' = SeenReserved(expected_revert, exp_seen)
    /\ UNCHANGED <<expected_revert, next_msg_sender, msg_sender, depth, stack, aborted,
                   consumed_last, exp_at, gasometer, parents, clock_asked, logs>>
    /\ UNCHANGED world

(* The context and transfer the runtime hands to Handler::call. *)
NaturalCall(f, to, scheme, v) ==
    IF scheme = "DELEGATECALL"
    THEN Rewritten(Context(f.ctx.address, f.ctx.caller, f.ctx.apparent_value), None)
    ELSE Rewritten(Context(to, f.ctx.address, v),
                   Some(Transfer(f.ctx.address, to, v)))

Schemes == {"CALL", "DELEGATECALL"}

(* history: what the dispatcher was given and what it handed to call_inner *)
Dispatched(to, nat, eff, takeL64, takeStipend) ==
    [code_address |-> to, nat |-> nat, eff |-> eff,
     take_l64 |-> takeL64, take_stipend |-> takeStipend,
     hadNext |-> next_msg_sender # None,
     matched |-> /\ msg_sender # None
                 /\ msg_sender[1][1] = nat.ctx.caller
                 /\ msg_sender[1][3] = depth[1] + 1,
     impersonated |-> IF msg_sender # None THEN Some(msg_sender[1][2]) ELSE None,
     next |-> next_msg_sender,
     plain |-> expected_revert = None /\ next_msg_sender = None /\ msg_sender = None,
     after |-> consumed_last,
     expAt |-> exp_at,
     expSeen |-> exp_seen]

(* Handler::call to any other address, up to the start of the callee. *)
(* gasOk: whether the costs are covered, when the gas is not followed in    *)
(* numbers (meter = None).  moves: the value transfer is followed in the    *)
(* balances, and fails when the source holds less than the value.           *)
CallMoved(to, scheme, v, transferOk, pre, gasOk, meter, moves) ==
    /\ Running
    /\ Top.hooked
    /\ IF meter = None
       THEN gasOk \in RecordCosts
       ELSE meter[1].gm.failed = (gasometer = "failed")
    /\ LET nat == NaturalCall(Top, to, scheme, v)
           local == expected_revert
           o == RewriteCall(msg_sender, next_msg_sender, depth, nat.ctx, nat.transfer)
           bal == IF moves THEN Moved(balance, o.transfer) ELSE balance
           gas == IF meter = None THEN None
                  ELSE Some(CallInnerGas(meter[1].gm, meter[1].target_gas, TRUE, TRUE,
                                         meter[1].config, o.transfer))
           r == CallInnerReturn(to, o.transfer, transferOk, pre,
                                IF gas = None THEN gasOk ELSE gas[1].ok)
           d == Dispatched(to, nat, o, TRUE, TRUE)
           final == ExpectedRevertResult(r[1].res, local)
       IN /\ (moves /\ o.transfer # None) =>
                transferOk = (balance[o.transfer[1].source] >= o.transfer[1].value)
          /\ expected_revert' = TakeExpectedRevert(expected_revert)
          /\ next_msg_sender' = TakeNextMsgSender(next_msg_sender)
          /\ consumed_last' = (next_msg_sender # None)
          /\ exp_at' = IF expected_revert' = None THEN 0 ELSE exp_at
          /\ exp_seen' = IF expected_revert' = None THEN "none" ELSE "call"
          /\ IF r # None
             THEN /\ last' = IF gas = None
                             THEN [kind |-> "call", early |-> TRUE, d |-> d,
                                   plain |-> d.plain, expected |-> local,
                                   inner |-> r[1].res, final |-> final,
                                   exited |-> r[1].kind]
                             ELSE [kind |-> "call", early |-> TRUE, d |-> d,
                                   plain |-> d.plain, expected |-> local,
                                   inner |-> r[1].res, final |-> final,
                                   exited |-> r[1].kind,
                                   take_l64 |-> TRUE, take_stipend |-> TRUE,
                                   transfer |-> o.transfer, meter |-> meter[1],
                                   gas |-> gas[1]]
                  /\ aborted' = (final = Panic)
                  /\ ReturnedMoving(r[1], nonce, accessed, bal)
             ELSE /\ StartedMoving(Frame("call", o.ctx, local, d.plain, d.expAt,
                                         d.expSeen, TRUE),
                                   nonce, accessed, nonce, bal)
                  /\ last' = IF gas = None
                             THEN [kind |-> "enter", d |-> d]
                             ELSE [kind |-> "enter", d |-> d,
                                   take_l64 |-> TRUE, take_stipend |-> TRUE,
                                   transfer |-> o.transfer, meter |-> meter[1],
                                   gas |-> gas[1]]
                  /\ UNCHANGED aborted
    /\ UNCHANGED <<msg_sender, console_logs, cheats, clock_asked, enable_ffi, spawned>>

(* A call whose value transfer is left to the backend's answer, transferOk. *)
CallMetered(to, scheme, v, transferOk, pre, gasOk, meter) ==
    CallMoved(to, scheme, v, transferOk, pre, gasOk, meter, FALSE)

Call(to, scheme, v, transferOk, pre, gasOk) ==
    CallMetered(to, scheme, v, transferOk, pre, gasOk, None)

CallInnerExitKind_RevertFails(exit) ==
    CASE exit.reason = "Succeed" -> "Succeeded"
      [] exit.reason = "Error" -> "Failed"
      [] exit.reason = "Revert" -> "Failed"
      [] exit.reason = "Fatal" -> "Failed"

(* call_inner: the substate exit kind for the exit of the runtime *)
CallInnerExitKind(exit) ==
    CASE exit.reason = "Succeed" -> "Succeeded"
      [] exit.reason = "Error" -> "Failed"
      [] exit.reason = "Revert" -> "Reverted"
      [] exit.reason = "Fatal" -> "Failed"

(* call_inner: gasometer_mut().fail() on a fatal exit; the gasometer of the *)
(* substate when it is exited                                               *)
GasometerAtExit(exit) == IF exit.reason = "Fatal" THEN "failed" ELSE gasometer

(* The state after the exit of the innermost substate. *)
Exited(kind) ==
    LET parent == parents[Len(parents)]
        after == ExitState(kind, parent.saved)
    IN /\ depth' = ExitSubstate(depth)
       /\ parents' = SubSeq(parents, 1, Len(parents) - 1)
       /\ gasometer' = parent.gasometer
       /\ storage' = after.storage
       /\ balance' = after.balance
       /\ code' = after.code
       /\ logs' = after.logs
       /\ nonce' = after.nonce
       /\ accessed' = after.accessed

(* The runtime of the innermost frame exits: the tail of call_inner and,    *)
(* for a dispatched call, the rest of Handler::call.                        *)
RuntimeExit(exit) ==
    /\ Running
    /\ Top.via \in {"top", "call", "inner"}
    /\ LET f == Top
           inner == CallInnerExit(exit)
           final == ExpectedRevertResult(inner, f.expected)
       IN /\ stack' = SubSeq(stack, 1, Len(stack) - 1)
          /\ Exited(CallInnerExitKind(exit))
          /\ CASE f.via = "top" ->
                    /\ last' = [kind |-> "transact", res |-> inner, runtime |-> exit,
                                exited |-> CallInnerExitKind(exit),
                                gasometer |-> GasometerAtExit(exit)]
                    /\ UNCHANGED aborted
               [] f.via = "inner" ->
                    /\ last' = [kind |-> "inner_return", res |-> inner, runtime |-> exit,
                                exited |-> CallInnerExitKind(exit),
                                gasometer |-> GasometerAtExit(exit)]
                    /\ UNCHANGED aborted
               [] f.via = "call" ->
                    /\ last' = [kind |-> "call", early |-> FALSE, plain |-> f.plain,
                                expected |-> f.expected, inner |-> inner, final |-> final,
                                runtime |-> exit, exited |-> CallInnerExitKind(exit),
                                gasometer |-> GasometerAtExit(exit)]
                    /\ aborted' = (final = Panic)
    /\ UNCHANGED <<expected_revert, next_msg_sender, msg_sender, console_logs,
                   consumed_last, exp_at, exp_seen, cheats, clock_asked, enable_ffi, spawned>>

----------------------------------------------------------------------------
(* The rest of the handler: queries, logs, and contract creation.           *)

ClockFields == {"block_timestamp", "block_number", "block_base_fee_per_gas"}

(* The overlay backend: the overlay when populated, else the wrapped value. *)
OverlayQuery(ch, field) == IF ch[field] # None THEN ch[field][1] ELSE WrappedClock[field]

(* Handler::block_timestamp / block_number / block_base_fee_per_gas *)
BlockQuery(field) ==
    /\ Running
    /\ last' = [kind |-> "query", field |-> field, res |-> OverlayQuery(cheats, field)]
    /\ UNCHANGED <<expected_revert, next_msg_sender, msg_sender, depth, console_logs,
                   stack, aborted, consumed_last, exp_at, exp_seen, gasometer, parents,
                   clock_asked, logs>>
    /\ UNCHANGED world

(* The texts an event of a test-logging schema is formatted to. *)
EventTexts == {"x", "y"}

(* Handler::log: a LOG opcode of the running code.  known: the event        *)
(* decodes as one of HevmConsoleEvents.                                     *)
EmitLog(known, text) ==
    /\ Running
    /\ Len(logs) < MaxLogs
    /\ logs' = Append(logs, [address |-> Top.ctx.address, known |-> known, text |-> text])
    /\ last' = [kind |-> "log"]
    /\ UNCHANGED <<expected_revert, next_msg_sender, msg_sender, depth, console_logs,
                   stack, aborted, consumed_last, exp_at, exp_seen, gasometer, parents,
                   clock_asked>>
    /\ UNCHANGED world

(* clear_logs, called by the driver between executions *)
ClearLogs ==
    /\ ~aborted
    /\ stack = <<>>
    /\ last # NoOp
    /\ logs' = <<>>
    /\ last' = [kind |-> "clear_logs"]
    /\ UNCHANGED <<expected_revert, next_msg_sender, msg_sender, depth, console_logs,
                   stack, aborted, consumed_last, exp_at, exp_seen, gasometer, parents,
                   clock_asked>>
    /\ UNCHANGED world

(* `filter_map(.. decode_log(&log).ok())` and the formatting of the event *)
RECURSIVE Recognized(_)
Recognized(events) ==
    IF events = <<>> THEN <<>>
    ELSE IF events[1].known
         THEN <<events[1].text>> \o Recognized(Tail(events))
         ELSE Recognized(Tail(events))

LogsOf_ConsoleFirst(events, lines) == lines \o Recognized(events)

(* logs(): the recognized events, `.chain(self.console_logs.clone())` *)
LogsOf(events, lines) == Recognized(events) \o lines

(* logs(), called by the driver after an execution *)
LogsQuery ==
    /\ ~aborted
    /\ stack = <<>>
    /\ last # NoOp
    /\ last' = [kind |-> "logs", res |-> LogsOf(logs, console_logs)]
    /\ UNCHANGED <<expected_revert, next_msg_sender, msg_sender, depth, console_logs,
                   stack, aborted, consumed_last, exp_at, exp_seen, gasometer, parents,
                   clock_asked, logs>>
    /\ UNCHANGED world

(* create_address(scheme) *)
NewAddress == "N"

CreateResult(reason, kind, address, output) ==
    [reason |-> reason, kind |-> kind, address |-> address, output |-> output]

(* create_inner up to the runtime: Some([res, kind]) when it returns without *)
(* running the init code, None when the runtime is started.                 *)
CreateInnerEarly(fundsOk, gasOk, collides, transferOk) ==
    IF depth # None /\ depth[1] > CallStackLimit
    THEN Some([res |-> CreateResult("Error", "CallTooDeep", None, <<>>), kind |-> "NotEntered"])
    ELSE IF ~fundsOk
    THEN Some([res |-> CreateResult("Error", "OutOfFund", None, <<>>), kind |-> "NotEntered"])
    ELSE IF ~gasOk
    THEN Some([res |-> CreateResult("Error", "OutOfGas", None, <<>>), kind |-> "NotEntered"])
    ELSE IF collides \/ code[NewAddress] # <<>> \/ nonce[NewAddress] > 0
    THEN Some([res |-> CreateResult("Error", "CreateCollision", None, <<>>), kind |-> "Failed"])
    ELSE IF ~transferOk
    THEN Some([res |-> CreateResult("Error", "OutOfFund", None, <<>>), kind |-> "Reverted"])
    ELSE None

(* The state after create_inner returned r without running the init code. *)
CreateReturned_NonceFirst(r, caller) ==
    /\ gasometer' = IF r.res.kind = "OutOfGas" THEN "failed" ELSE gasometer
    /\ accessed' = accessed \cup {caller, NewAddress}
    /\ nonce' = inc_nonce(nonce, caller)
    /\ UNCHANGED <<stack, depth, parents, storage, balance, code, logs>>

(* The caller and the new address are marked accessed before anything else; *)
(* the caller's nonce is incremented before the substate is entered.        *)
CreateReturned(r, caller) ==
    /\ gasometer' = IF r.res.kind = "OutOfGas" THEN "failed" ELSE gasometer
    /\ accessed' = accessed \cup {caller, NewAddress}
    /\ nonce' = IF r.kind = "NotEntered" THEN nonce ELSE inc_nonce(nonce, caller)
    /\ UNCHANGED <<stack, depth, parents, storage, balance, code, logs>>

(* config.create_increase_nonce *)
create_increase_nonce == TRUE

(* transact_create and Handler::create, up to the start of the init code.   *)
(* The top-level creation runs create_inner of the cheatcode handler; a     *)
(* CREATE of running code is forwarded to the wrapped handler, which runs    *)
(* the init code against itself.                                            *)
CreateStart(via, caller, value, fundsOk, gasOk, collides, transferOk) ==
    LET r == CreateInnerEarly(fundsOk, gasOk, collides, transferOk)
        ctx == Context(NewAddress, caller, value)
        entered == inc_nonce(nonce, caller)
    IN /\ gasOk \in RecordCosts
       /\ (r = None \/ r[1].kind # "NotEntered") => nonce[caller] < MaxNonce
       /\ IF r # None
          THEN /\ last' = [kind |-> "create", early |-> TRUE, res |-> r[1].res,
                           caller |-> caller, exited |-> r[1].kind]
               /\ CreateReturned(r[1], caller)
          ELSE /\ StartedWith(Frame(via, ctx, None, FALSE, 0, "none", via = "create_top"),
                              entered, accessed \cup {caller, NewAddress},
                              IF create_increase_nonce
                              THEN inc_nonce(entered, NewAddress) ELSE entered)
               /\ last' = [kind |-> "create_enter", caller |-> caller]
       /\ UNCHANGED <<expected_revert, next_msg_sender, msg_sender, console_logs,
                      aborted, consumed_last, exp_at, exp_seen,
                      cheats, clock_asked, enable_ffi, spawned>>

(* transact_create *)
TransactCreate(caller, value, fundsOk, gasOk, collides, transferOk) ==
    /\ ~aborted
    /\ stack = <<>>
    /\ last = NoOp
    /\ CreateStart("create_top", caller, value, fundsOk, gasOk, collides, transferOk)

(* Handler::create: `self.handler.create(..)` *)
Create(value, fundsOk, gasOk, collides, transferOk) ==
    /\ Running
    /\ CreateStart("create", Top.ctx.address, value, fundsOk, gasOk, collides, transferOk)

(* What happens to the code the init code returned. *)
DeployOutcomes == {"Ok", "InvalidCode", "ContractLimit", "DepositFail", "ExitError"}

(* create_inner: `match reason` *)
CreateInnerExit(exit, deploy) ==
    CASE exit.reason = "Succeed" ->
           (CASE deploy = "Ok" -> CreateResult("Succeed", exit.kind, Some(NewAddress), <<>>)
              [] deploy = "InvalidCode" -> CreateResult("Error", "InvalidCode", None, <<>>)
              [] deploy = "ContractLimit" ->
                   CreateResult("Error", "CreateContractLimit", None, <<>>)
              [] deploy = "DepositFail" -> CreateResult("Error", "OutOfGas", None, <<>>)
              [] deploy = "ExitError" -> CreateResult("Error", "OutOfGas", None, <<>>))
      [] exit.reason = "Error" -> CreateResult("Error", exit.kind, None, <<>>)
      [] exit.reason = "Revert" -> CreateResult("Revert", exit.kind, None, exit.data)
      [] exit.reason = "Fatal" -> CreateResult("Fatal", exit.kind, None, <<>>)

(* create_inner: the substate exit kind for the exit of the init code *)
CreateInnerExitKind(exit, deploy) ==
    CASE exit.reason = "Succeed" ->
           IF deploy \in {"Ok", "ExitError"} THEN "Succeeded" ELSE "Failed"
      [] exit.reason = "Error" -> "Failed"
      [] exit.reason = "Revert" -> "Reverted"
      [] exit.reason = "Fatal" -> "Failed"

CreateGasometerAtExit_DepositKeeps(exit, deploy) ==
    CASE exit.reason = "Succeed" ->
           IF deploy \in {"InvalidCode", "ContractLimit"} THEN "failed" ELSE gasometer
      [] exit.reason = "Error" -> "failed"
      [] exit.reason = "Revert" -> gasometer
      [] exit.reason = "Fatal" -> "failed"

(* create_inner: the gasometer of the substate when it is exited.           *)
(* gasometer_mut().fail() for code that is refused, for an error and for a  *)
(* fatal exit; a record_deposit that returns Err has failed the gasometer   *)
(* itself, as every record_cost that returns Err does.                      *)
CreateGasometerAtExit(exit, deploy) ==
    CASE exit.reason = "Succeed" ->
           IF deploy \in {"InvalidCode", "ContractLimit", "DepositFail"}
           THEN "failed" ELSE gasometer
      [] exit.reason = "Error" -> "failed"
      [] exit.reason = "Revert" -> gasometer
      [] exit.reason = "Fatal" -> "failed"

(* The init code of the innermost frame exits: the tail of create_inner.    *)
(* `set_code(address, out)` follows the exit of the substate.               *)
(* config: the configuration the returned code was checked against, None   *)
(* when the outcome of the checks is given.                                 *)
CreateExitWith(exit, deploy, config) ==
    /\ Running
    /\ Top.via \in {"create_top", "create"}
    /\ LET kind == CreateInnerExitKind(exit, deploy)
           parent == parents[Len(parents)]
           after == ExitState(kind, parent.saved)
           sets == exit.reason = "Succeed" /\ deploy \in {"Ok", "ExitError"}
       IN /\ stack' = SubSeq(stack, 1, Len(stack) - 1)
          /\ depth' = ExitSubstate(depth)
          /\ parents' = SubSeq(parents, 1, Len(parents) - 1)
          /\ gasometer' = parent.gasometer
          /\ storage' = after.storage
          /\ balance' = after.balance
          /\ logs' = after.logs
          /\ nonce' = after.nonce
          /\ accessed' = after.accessed
          /\ code' = IF sets THEN [after.code EXCEPT ![NewAddress] = exit.data]
                     ELSE after.code
          /\ last' = [kind |-> "create", early |-> FALSE,
                      res |-> CreateInnerExit(exit, deploy),
                      caller |-> Top.ctx.caller, exited |-> kind,
                      runtime |-> exit, deploy |-> deploy, config |-> config,
                      gasometer |-> CreateGasometerAtExit(exit, deploy)]
    /\ UNCHANGED <<expected_revert, next_msg_sender, msg_sender, console_logs, aborted,
                   consumed_last, exp_at, exp_seen, cheats, clock_asked, enable_ffi, spawned>>

CreateExit(exit, deploy) == CreateExitWith(exit, deploy, None)

CreateConfig(disallow_executable_format, create_contract_limit) ==
    [disallow_executable_format |-> disallow_executable_format,
     create_contract_limit |-> create_contract_limit]

(* fn check_first_byte(config, code): code starting with 0xef is refused *)
check_first_byte(config, out) ==
    ~(config.disallow_executable_format /\ out # <<>> /\ out[1] = 239)

Deploy_LimitExclusive(config, out, depositOk, parentGasometer) ==
    IF ~check_first_byte(config, out) THEN "InvalidCode"
    ELSE IF config.create_contract_limit # None
            /\ Len(out) >= config.create_contract_limit[1]
    THEN "ContractLimit"
    ELSE IF ~depositOk THEN "DepositFail"
    ELSE IF parentGasometer = "failed" THEN "ExitError"
    ELSE "Ok"

(* create_inner, ExitReason::Succeed: what happens to the returned code.    *)
(* Committing the substate fails only into a gasometer that has failed.     *)
Deploy(config, out, depositOk, parentGasometer) ==
    IF ~check_first_byte(config, out) THEN "InvalidCode"
    ELSE IF config.create_contract_limit # None
            /\ Len(out) > config.create_contract_limit[1]
    THEN "ContractLimit"
    ELSE IF ~depositOk THEN "DepositFail"
    ELSE IF parentGasometer = "failed" THEN "ExitError"
    ELSE "Ok"

(* The init code exits and the returned code is checked as configured. *)
CreateExitChecked(exit, config, depositOk) ==
    CreateExitWith(exit,
                   Deploy(config, exit.data, depositOk, parents[Len(parents)].gasometer),
                   Some(config))

(* A call of code that runs against the wrapped handler: its call_inner,    *)
(* with the context and transfer as they come.  The code at the two         *)
(* reserved addresses is the single zero byte, which stops at once.         *)
WrappedCall(to, scheme, v, transferOk, pre, gasOk) ==
    /\ Running
    /\ ~Top.hooked
    /\ gasOk \in RecordCosts
    /\ LET nat == NaturalCall(Top, to, scheme, v)
           r == CallInnerReturn(to, nat.transfer, transferOk, pre, gasOk)
           info == [code_address |-> to, hadNext |-> next_msg_sender # None,
                    hadExpected |-> expected_revert # None]
       IN IF r # None
          THEN /\ last' = [kind |-> "wrapped_call", early |-> TRUE, w |-> info,
                           res |-> r[1].res]
               /\ Returned(r[1])
          ELSE IF to \in {CHEATCODE_ADDRESS, CONSOLE_ADDRESS}
          THEN /\ last' = [kind |-> "wrapped_call", early |-> FALSE, w |-> info,
                           res |-> Stopped(<<>>)]
               /\ UNCHANGED <<stack, depth, parents, gasometer, storage, balance, code, logs,
                              nonce, accessed>>
          ELSE /\ Started(Frame("inner", nat.ctx, None, FALSE, 0, "none", FALSE))
               /\ last' = [kind |-> "wrapped_enter", w |-> info]
    /\ UNCHANGED <<expected_revert, next_msg_sender, msg_sender, console_logs,
                   aborted, consumed_last, exp_at, exp_seen,
                   cheats, clock_asked, enable_ffi, spawned>>

----------------------------------------------------------------------------
(* Specifications.                                                          *)

Transact ==
    \E caller \in Senders, address \in Tests, v \in Values :
       \E ok \in TransferOks(v) : TransactCall(caller, address, v, ok, "Ok")

Calls ==
    \/ \E to \in Callees, scheme \in Schemes, v \in Values :
         \E ok \in TransferOks(v) : Call(to, scheme, v, ok, "Ok", TRUE)
    \/ \E scheme \in Schemes, v \in Values, pre \in PrecompileResults :
         \E ok \in TransferOks(v) : Call(PRECOMPILE_ADDRESS, scheme, v, ok, pre, TRUE)

(* A test that uses the prank cheatcodes. *)
PrankExits == {x \in RuntimeExits : x.data = <<>>}

NextPrank ==
    \/ Transact
    \/ \E input \in PrankInputs, delegate \in BOOLEAN : CheatcodeCall(input, delegate)
    \/ \E input \in PlainInputs, delegate \in BOOLEAN : CheatcodeCall(input, delegate)
    \/ \E decodes \in BOOLEAN : ConsoleCall(decodes, "a")
    \/ Calls
    \/ \E exit \in PrankExits : RuntimeExit(exit)

SpecPrank == Init /\ [][NextPrank]_vars

(* A test that uses expectRevert. *)
NextRevert ==
    \/ Transact
    \/ \E input \in ExpectInputs : CheatcodeCall(input, FALSE)
    \/ \E input \in PlainInputs : CheatcodeCall(input, FALSE)
    \/ \E decodes \in BOOLEAN : ConsoleCall(decodes, "a")
    \/ Calls
    \/ \E exit \in RuntimeExits : RuntimeExit(exit)

SpecRevert == Init /\ [][NextRevert]_vars

(* A test that uses all of them, on fewer inputs. *)
MixedPranks == {x \in PrankInputs : x.arg = "X"}

MixedExpects == {x \in ExpectInputs : x.arg = <<1>>}

MixedExits == {x \in RuntimeExits : x.data = <<>> \/ (x.reason = "Revert" /\ x.data = <<1>>)}

Next ==
    \/ Transact
    \/ \E input \in MixedPranks : CheatcodeCall(input, FALSE)
    \/ \E input \in MixedExpects : CheatcodeCall(input, FALSE)
    \/ \E input \in PlainInputs : CheatcodeCall(input, FALSE)
    \/ \E decodes \in BOOLEAN : ConsoleCall(decodes, "a")
    \/ Calls
    \/ \E exit \in MixedExits : RuntimeExit(exit)

Spec == Init /\ [][Next]_vars

(* One call of the test contract to D, and the exits of a frame. *)
PlainCalls ==
    \E v \in Values : \E ok \in TransferOks(v) : Call("D", "CALL", v, ok, "Ok", TRUE)

(* A test that moves the clock and reads it. *)
NextClock ==
    \/ Transact
    \/ \E input \in ClockInputs : CheatcodeCall(input, FALSE)
    \/ \E field \in ClockFields : BlockQuery(field)
    \/ PlainCalls
    \/ \E exit \in MixedExits : RuntimeExit(exit)

SpecClock == Init /\ [][NextClock]_vars

(* A test that writes storage and reads it back. *)
NextStore ==
    \/ Transact
    \/ \E input \in StoreInputs : CheatcodeCall(input, FALSE)
    \/ \E input \in LoadInputs : CheatcodeCall(input, FALSE)
    \/ PlainCalls
    \/ \E exit \in MixedExits : RuntimeExit(exit)

SpecStore == Init /\ [][NextStore]_vars

(* A test that sets balances. *)
NextDeal ==
    \/ Transact
    \/ \E input \in DealInputs : CheatcodeCall(input, FALSE)
    \/ PlainCalls
    \/ \E exit \in MixedExits : RuntimeExit(exit)

SpecDeal == Init /\ [][NextDeal]_vars

(* A test that calls out to the host and derives keys. *)
NextFfi ==
    \/ Transact
    \/ \E input \in FfiInputs : CheatcodeCall(input, FALSE)
    \/ \E input \in KeyInputs : CheatcodeCall(input, FALSE)
    \/ PlainCalls
    \/ \E exit \in MixedExits : RuntimeExit(exit)

SpecFfi == InitFfi /\ [][NextFfi]_vars

(* A test that meets every failure the dispatcher and the engine answer     *)
(* themselves.                                                              *)
FailExits ==
    {x \in RuntimeExits :
       x.data = <<>> \/ (x.reason = "Revert" /\ x.data \in {<<1>>, ERROR_SELECTOR})}

NextFail ==
    \/ Transact
    \/ \E input \in FfiInputs : CheatcodeCall(input, FALSE)
    \/ \E input \in KeyInputs : CheatcodeCall(input, FALSE)
    \/ \E input \in MixedPranks : CheatcodeCall(input, FALSE)
    \/ \E input \in MixedExpects : CheatcodeCall(input, FALSE)
    \/ \E input \in PlainInputs : CheatcodeCall(input, FALSE)
    \/ PlainCalls
    \/ \E exit \in FailExits : RuntimeExit(exit)

SpecFail == InitFfi /\ [][NextFail]_vars

(* A test contract that uses every cheatcode, and calls nothing else. *)
NextCheats ==
    \/ Transact
    \/ \E input \in {x \in ClockInputs : x.arg = 1} : CheatcodeCall(input, FALSE)
    \/ \E input \in {x \in StoreInputs : x.arg = [a |-> "D", k |-> 0, v |-> 1]} :
         CheatcodeCall(input, FALSE)
    \/ \E input \in {x \in LoadInputs : x.arg = [a |-> "D", k |-> 0]} : CheatcodeCall(input, FALSE)
    \/ \E input \in {x \in DealInputs : x.arg = [a |-> "C", v |-> 2]} : CheatcodeCall(input, FALSE)
    \/ \E input \in {x \in EtchInputs : x.arg.c = <<>>} : CheatcodeCall(input, FALSE)
    \/ \E input \in {x \in FfiInputs : x.arg.spawnOk /\ x.arg.stdout = <<"0", "x", "0", "a">>} :
         CheatcodeCall(input, FALSE)
    \/ \E input \in {x \in KeyInputs : x.arg = "valid"} : CheatcodeCall(input, FALSE)
    \/ \E input \in MixedPranks : CheatcodeCall(input, FALSE)
    \/ \E input \in MixedExpects : CheatcodeCall(input, FALSE)
    \/ \E input \in PlainInputs : CheatcodeCall(input, FALSE)
    \/ \E exit \in MixedExits : RuntimeExit(exit)

SpecCheats == Construct(TRUE) /\ [][NextCheats]_vars

(* A test that creates contracts, calls precompiles and runs out of gas.     *)
CoreExits == {x \in MixedExits : x.reason \in {"Succeed", "Revert"}}

NextCore ==
    \/ Transact
    \/ \E caller \in Senders, fundsOk \in BOOLEAN :
         TransactCreate(caller, 0, fundsOk, TRUE, FALSE, TRUE)
    \/ \E input \in {x \in MixedPranks : x.op = "Prank"} : CheatcodeCall(input, FALSE)
    \/ \E input \in MixedExpects : CheatcodeCall(input, FALSE)
    \/ \E gasOk \in BOOLEAN : Call("D", "CALL", 0, TRUE, "Ok", gasOk)
    \/ \E pre \in PrecompileOutcomes : Call(PRECOMPILE_ADDRESS, "CALL", 0, TRUE, pre, TRUE)
    \/ \E collides \in BOOLEAN : Create(0, TRUE, TRUE, collides, TRUE)
    \/ \E to \in {"D", CHEATCODE_ADDRESS, CONSOLE_ADDRESS} :
         WrappedCall(to, "CALL", 0, TRUE, "Ok", TRUE)
    \/ \E exit \in CoreExits : RuntimeExit(exit)
    \/ \E exit \in CoreExits, deploy \in {"Ok", "InvalidCode"} : CreateExit(exit, deploy)

SpecCore == Init /\ [][NextCore]_vars

(* A transaction whose gas is followed in numbers: the callers' gasometers, *)
(* the gas they offer and the configurations.                               *)
GasMeters(failed) ==
    {Gasometer(MaxGas, used, failed) : used \in {0, 66}}

TargetGases == {None, Some(100), Some(MaxGas)}

GasConfigs == {GasConfig(after, estimate, 2) : after \in BOOLEAN, estimate \in BOOLEAN}

Meters(targets) ==
    {Meter(gm, target_gas, config) :
       gm \in GasMeters(gasometer = "failed"), target_gas \in targets,
       config \in GasConfigs}

GasExits == {x \in RuntimeExits : x.data = <<>> /\ x.reason \in {"Succeed", "Revert"}}

NextGas ==
    \/ \E caller \in Senders, address \in Tests, v \in {0, 1} :
         \E meter \in Meters(TargetGases \ {None}) :
            TransactCallMetered(caller, address, v, TRUE, "Ok", Some(meter))
    \/ \E v \in {0, 1}, scheme \in Schemes :
         \E ok \in TransferOks(v), meter \in Meters(TargetGases) :
            CallMetered("D", scheme, v, ok, "Ok", TRUE, Some(meter))
    \/ Call("D", "CALL", 0, TRUE, "Ok", FALSE)
    \/ \E exit \in GasExits : RuntimeExit(exit)

SpecGas == Init /\ [][NextGas]_vars

(* A test whose frames emit events and end in every way the runtime can.   *)
NextExit ==
    \/ Transact
    \/ \E text \in EventTexts : EmitLog(TRUE, text)
    \/ PlainCalls
    \/ \E exit \in RuntimeExits : RuntimeExit(exit)

SpecExit == Init /\ [][NextExit]_vars

(* Creations from the top level and from running code, whose init code     *)
(* ends in every way and returns code of every shape.                       *)
CreateExits ==
    MixedExits
      \cup [reason : {"Succeed"}, kind : {"Returned"},
             data : {<<1>>, <<239>>, <<1, 1>>}]

CreateConfigs ==
    {CreateConfig(d, l) : d \in BOOLEAN, l \in {None, Some(1)}}

NextCreate ==
    \/ Transact
    \/ \E caller \in Senders, v \in {0, 1}, gasOk \in BOOLEAN, collides \in BOOLEAN :
         \E fundsOk \in TransferOks(v), transferOk \in TransferOks(v) :
            TransactCreate(caller, v, fundsOk, gasOk, collides, transferOk)
    \/ Call("D", "CALL", 0, TRUE, "Ok", TRUE)
    \/ \E v \in {0, 1}, gasOk \in BOOLEAN, collides \in BOOLEAN :
         \E fundsOk \in TransferOks(v), transferOk \in TransferOks(v) :
            Create(v, fundsOk, gasOk, collides, transferOk)
    \/ \E exit \in GasExits : RuntimeExit(exit)
    \/ \E exit \in CreateExits, config \in CreateConfigs, depositOk \in BOOLEAN :
         CreateExitChecked(exit, config, depositOk)

SpecCreate == Init /\ [][NextCreate]_vars

(* Transactions one after the other, also to the reserved addresses, by     *)
(* senders whose code leaves pranks and expected reverts pending.           *)
TopSenders == {"X", "D"}

TopTargets == {"C", CHEATCODE_ADDRESS, CONSOLE_ADDRESS}

NextTop ==
    \/ \E caller \in TopSenders, address \in TopTargets, v \in {0, 1}, txOk \in BOOLEAN :
         \E ok \in TransferOks(v) :
            TransactCallRecorded(caller, address, v, ok, "Ok", None, txOk)
    \/ \E input \in MixedPranks : CheatcodeCall(input, FALSE)
    \/ \E input \in MixedExpects : CheatcodeCall(input, FALSE)
    \/ \E exit \in MixedExits : RuntimeExit(exit)

SpecTop == Init /\ [][NextTop]_vars

(* A test that expects reverts of calls that carry value, to a callee that  *)
(* emits events and ends in every way.                                      *)
NextRollback ==
    \/ Transact
    \/ \E input \in MixedExpects : CheatcodeCall(input, FALSE)
    \/ \E text \in EventTexts : EmitLog(TRUE, text)
    \/ \E v \in Values, ok \in BOOLEAN :
         CallMoved("D", "CALL", v, ok, "Ok", TRUE, None, TRUE)
    \/ \E exit \in MixedExits : RuntimeExit(exit)

SpecRollback == Init /\ [][NextRollback]_vars

(* A test that sets the extensions and then has frames fail, creates a      *)
(* contract, logs to the console, and a driver that clears the logs.        *)
LifeExits == {x \in MixedExits : x.data = <<>>}

NextLife ==
    \/ Transact
    \/ \E input \in MixedPranks : CheatcodeCall(input, FALSE)
    \/ \E input \in MixedExpects : CheatcodeCall(input, FALSE)
    \/ \E input \in PlainInputs : CheatcodeCall(input, FALSE)
    \/ ConsoleCall(TRUE, "a")
    \/ \E gasOk \in BOOLEAN : Call("D", "CALL", 0, TRUE, "Ok", gasOk)
    \/ Create(0, TRUE, TRUE, FALSE, TRUE)
    \/ \E exit \in LifeExits : RuntimeExit(exit)
    \/ \E exit \in LifeExits : CreateExit(exit, "Ok")
    \/ ClearLogs

SpecLife == Init /\ [][NextLife]_vars

(* A test that logs to the console and emits events, under a driver that   *)
(* reads and clears the logs.                                               *)
NextLogs ==
    \/ Transact
    \/ \E decodes \in BOOLEAN, text \in ConsoleTexts : ConsoleCall(decodes, text)
    \/ \E known \in BOOLEAN, text \in EventTexts : EmitLog(known, text)
    \/ PlainCalls
    \/ \E exit \in MixedExits : RuntimeExit(exit)
    \/ LogsQuery
    \/ ClearLogs

SpecLogs == Init /\ [][NextLogs]_vars

----------------------------------------------------------------------------
(* Properties.                                                              *)

(* the latest operation was a call that went through the prank rewriting *)
IsDispatch == last.kind = "enter" \/ (last.kind = "call" /\ last.early)

(* C1 (as stated): prank one-shot.  A call dispatched while a one-shot      *)
(* prank is pending executes with the pranked caller (and transfer source)  *)
(* and consumes it; the call dispatched after the consuming one, with no    *)
(* further prank issued, executes with its natural caller.                  *)
C1_PrankOneShotNatural ==
    IsDispatch =>
      /\ next_msg_sender = None
      /\ last.d.hadNext =>
           /\ last.d.eff.ctx.caller = last.d.next[1]
           /\ last.d.eff.transfer # None => last.d.eff.transfer[1].source = last.d.next[1]
      /\ (last.d.after /\ ~last.d.hadNext) =>
           last.d.eff.ctx.caller = last.d.nat.ctx.caller

(* C1 (amended): prank one-shot.  A call dispatched while a one-shot prank  *)
(* is pending executes with the pranked caller and consumes it; the call    *)
(* dispatched after the consuming one gets no one-shot rewrite: it executes *)
(* with its natural caller unless a persistent prank matches it, and then   *)
(* with the impersonated address of that persistent prank.                  *)
C1_PrankOneShot ==
    IsDispatch =>
      /\ next_msg_sender = None
      /\ last.d.hadNext =>
           /\ last.d.eff.ctx.caller = last.d.next[1]
           /\ last.d.eff.transfer # None => last.d.eff.transfer[1].source = last.d.next[1]
      /\ (last.d.after /\ ~last.d.hadNext) =>
           last.d.eff.ctx.caller =
             (IF last.d.matched THEN last.d.impersonated[1] ELSE last.d.nat.ctx.caller)

(* a call that follows the consuming call and runs with its natural caller *)
C1_Witness ==
    /\ last.kind = "enter"
    /\ last.d.after
    /\ ~last.d.hadNext
    /\ ~last.d.matched
    /\ last.d.eff.ctx.caller = last.d.nat.ctx.caller

(* C2: startPrank persistence.  Every call whose depth and natural caller   *)
(* match the stored persistent prank executes with the impersonated caller, *)
(* and dispatching a call leaves the persistent prank set.                  *)
C2_StartPrankEveryCall ==
    IsDispatch =>
      /\ last.d.matched => last.d.eff.ctx.caller = last.d.impersonated[1]
      /\ last.d.impersonated # None =>
           msg_sender # None /\ msg_sender[1][2] = last.d.impersonated[1]

(* a step that executes the cheatcode op *)
CheatStep(op) == last'.kind = "cheat" /\ last'.input.op = op

(* C3: prank is rejected whenever a persistent prank is set whose depth is  *)
(* the depth computed for the issuing frame and whose original pranker is   *)
(* the invoker: it reverts with the startPrank message and leaves           *)
(* next_msg_sender as it was.                                               *)
C3_PrankRejected ==
    [][(/\ CheatStep("Prank")
        /\ msg_sender # None
        /\ msg_sender[1][3] = depth[1] + 1
        /\ msg_sender[1][1] = last'.invoker)
       => /\ last'.res = evm_error(MsgActiveStartPrank)
          /\ next_msg_sender' = next_msg_sender]_vars

(* C4: startPrank while a one-shot prank is pending reverts with the prank  *)
(* message and changes neither field; otherwise it stores                   *)
(* (invoker, a, current depth + 1) and returns Succeed(Stopped).            *)
C4_StartPrank ==
    [][CheatStep("StartPrank") =>
         IF next_msg_sender # None
         THEN /\ last'.res = evm_error(MsgActivePrank)
              /\ msg_sender' = msg_sender
              /\ next_msg_sender' = next_msg_sender
         ELSE /\ depth # None
              /\ msg_sender' = Some(<<last'.invoker, last'.input.arg, depth[1] + 1>>)
              /\ next_msg_sender' = None
              /\ last'.res = Result("Succeed", "Stopped", <<>>)]_vars

(* a startPrank that was rejected because a prank is pending *)
C4_Witness ==
    /\ last.kind = "cheat"
    /\ last.input.op = "StartPrank"
    /\ last.res.reason = "Revert"
    /\ next_msg_sender # None

(* C5: no dispatched call has both a pending one-shot prank and a matching  *)
(* persistent prank.                                                        *)
C5_AtMostOnePrank == IsDispatch => ~(last.d.matched /\ last.d.hadNext)

(* the latest operation is a dispatched call that has returned *)
IsReturn == last.kind = "call"

(* C6: expectRevert matching.  A call dispatched under payload E returns    *)
(* Succeed(Returned) with 320 zero bytes when it reverts with data E or     *)
(* with the Error(string) selector followed by the ABI encoding of E, and   *)
(* Revert on every other outcome.                                           *)
C6_ExpectRevertMatching ==
    (IsReturn /\ last.expected # None) =>
      IF /\ last.inner.reason = "Revert"
         /\ \/ last.inner.output = last.expected[1]
            \/ last.inner.output = ERROR_SELECTOR \o AbiEncodeBytes(last.expected[1])
      THEN /\ last.final.reason = "Succeed"
           /\ last.final.kind = "Returned"
           /\ Len(last.final.output) = 320
           /\ \A i \in 1..320 : last.final.output[i] = 0
      ELSE last.final.reason = "Revert"

(* C7 (as stated): a pending payload has not yet seen any call through the  *)
(* dispatcher, whatever its destination, and it is cleared when a callee    *)
(* starts.                                                                  *)
C7_NextCallAnyDestination ==
    /\ expected_revert # None => exp_seen = "none"
    /\ last.kind = "enter" => expected_revert = None

(* C7 (amended): a pending payload applies to the very next call to an      *)
(* address other than the two reserved ones: it has seen no such call, it   *)
(* is cleared when the callee starts, and calls to the cheatcode and        *)
(* console addresses leave it pending.                                      *)
C7_NextCall ==
    /\ expected_revert # None => exp_seen # "call"
    /\ last.kind = "enter" => expected_revert = None
    /\ (IsDispatch /\ last.kind = "call") => expected_revert = None

(* a callee started under a payload that was taken out of the state *)
C7_Witness ==
    /\ last.kind = "enter"
    /\ Top.expected # None
    /\ expected_revert = None

(* C8: the payload is taken before the callee runs.  The payload a call is  *)
(* compared against had been through no earlier dispatched call and was set *)
(* no further back than in its caller's frame: a nested call is never       *)
(* rewritten by the payload of a call that encloses it, and a payload set   *)
(* inside a call waits in the state for a later call.                       *)
C8_TakenBeforeCall ==
    /\ \A i \in 1..Len(stack) :
         (stack[i].via = "call" /\ stack[i].expected # None) =>
           /\ stack[i].expSeen # "call"
           /\ stack[i].expAt >= i - 1
    /\ (IsDispatch /\ last.kind = "call" /\ last.expected # None) =>
         /\ last.d.expSeen # "call"
         /\ last.d.expAt >= Len(stack)
    /\ (Running /\ expected_revert # None) => exp_at >= Len(stack)

(* a payload set inside a call that is itself under an expected revert *)
C8_Witness ==
    /\ Len(stack) >= 2
    /\ Top.expected # None
    /\ expected_revert # None
    /\ exp_at = Len(stack)

(* C9: expectRevert while a payload is pending reverts with the second      *)
(* revert message and leaves the payload; otherwise it stores the payload   *)
(* and returns Succeed(Stopped).                                            *)
C9_ExpectRevert ==
    [][CheatStep("ExpectRevert") =>
         IF expected_revert # None
         THEN /\ last'.res = evm_error(MsgSecondExpect)
              /\ expected_revert' = expected_revert
         ELSE /\ expected_revert' = Some(last'.input.arg)
              /\ last'.res = Result("Succeed", "Stopped", <<>>)]_vars

(* a second expectRevert that was rejected *)
C9_Witness ==
    /\ last.kind = "cheat"
    /\ last.input.op = "ExpectRevert"
    /\ last.res.reason = "Revert"
    /\ expected_revert # None

(* C10: interpose transparency.  A call dispatched with no payload, no      *)
(* one-shot prank and no persistent prank set is handed to call_inner with  *)
(* the context and transfer it came with and take_l64 = take_stipend =      *)
(* true, and the dispatcher returns the result of call_inner.               *)
C10_Transparency ==
    /\ (IsDispatch /\ last.d.plain) =>
         /\ last.d.eff = last.d.nat
         /\ last.d.take_l64
         /\ last.d.take_stipend
    /\ (IsReturn /\ last.plain) => last.final = last.inner

(* a plain call whose revert data was passed through *)
C10_Witness ==
    /\ IsReturn
    /\ ~last.early
    /\ last.plain
    /\ last.inner.reason = "Revert"
    /\ last.final = last.inner

(* The addresses a cheatcode input names. *)
Named(input) ==
    IF input.op \in {"Store", "Load", "Deal", "Etch"} THEN {input.arg.a} ELSE {}

(* C11: cheatcode isolation.  A call to the cheatcode address that returns  *)
(* leaves the gasometer, the substate depth, the suspended substates and    *)
(* the running frames as they were (no gas is recorded, no substate is      *)
(* entered, no transfer is applied), changes the storage, balance and code  *)
(* of no address that its arguments do not name, and returns Succeed with   *)
(* Stopped whenever it does not return Revert.                              *)
C11_Isolation ==
    [][(last'.kind = "cheat" /\ ~aborted') =>
         /\ gasometer' = gasometer
         /\ depth' = depth
         /\ parents' = parents
         /\ stack' = stack
         /\ logs' = logs
         /\ \A a \in Accounts \ Named(last'.input) :
              /\ balance'[a] = balance[a]
              /\ code'[a] = code[a]
              /\ \A k \in Slots : storage'[<<a, k>>] = storage[<<a, k>>]
         /\ last'.res.reason # "Revert" =>
              (last'.res.reason = "Succeed" /\ last'.res.kind = "Stopped")]_vars

(* etch has replaced the code of the address it names and of no other *)
C11_Witness ==
    /\ last.kind = "cheat"
    /\ last.input.op = "Etch"
    /\ last.input.arg.a = "D"
    /\ code["D"] = <<>>
    /\ code["C"] = <<1>>
    /\ gasometer = "ok"

(* C14: clock overlay.  A clock query returns the value of the latest warp, *)
(* roll or fee for its field, and the value of the wrapped backend when the *)
(* field was never set; each of the three cheatcodes sets its own overlay   *)
(* field and leaves the other two as they were.                             *)
C14_ClockOverlay ==
    [][/\ last'.kind = "query" =>
            last'.res = (IF clock_asked'[last'.field] # None
                         THEN clock_asked'[last'.field][1]
                         ELSE WrappedClock[last'.field])
       /\ CheatStep("Warp") =>
            cheats' = [cheats EXCEPT !.block_timestamp = Some(last'.input.arg)]
       /\ CheatStep("Roll") =>
            cheats' = [cheats EXCEPT !.block_number = Some(last'.input.arg)]
       /\ CheatStep("Fee") =>
            cheats' = [cheats EXCEPT !.block_base_fee_per_gas = Some(last'.input.arg)]]_vars

(* after a warp and no roll, the block number is still the wrapped one and  *)
(* the timestamp is the warped one                                          *)
C14_Witness ==
    /\ last.kind = "query"
    /\ last.field = "block_number"
    /\ last.res = WrappedClock.block_number
    /\ clock_asked.block_timestamp = Some(2)
    /\ OverlayQuery(cheats, "block_timestamp") = 2

(* C15: store/load round trip.  store(a, k, v) sets the slot (a, k) to v and *)
(* changes no other slot, no balance and no code; load(a, k) changes no     *)
(* state and returns Succeed(Stopped) with the 32 bytes of the slot, which  *)
(* are the 32 bytes of v when it follows store(a, k, v).                    *)
C15_StoreLoad ==
    [][/\ CheatStep("Store") =>
            /\ storage' = [storage EXCEPT ![<<last'.input.arg.a, last'.input.arg.k>>] =
                                            last'.input.arg.v]
            /\ balance' = balance
            /\ code' = code
            /\ last'.res = Stopped(<<>>)
       /\ CheatStep("Load") =>
            /\ UNCHANGED <<storage, balance, code, cheats, expected_revert,
                           next_msg_sender, msg_sender, depth, stack, gasometer>>
            /\ last'.res.reason = "Succeed"
            /\ last'.res.kind = "Stopped"
            /\ Len(last'.res.output) = 32
            /\ last'.res.output = Word(storage[<<last'.input.arg.a, last'.input.arg.k>>])
            /\ (/\ last.kind = "cheat"
                /\ last.input.op = "Store"
                /\ last.input.arg.a = last'.input.arg.a
                /\ last.input.arg.k = last'.input.arg.k)
               => last'.res.output = Word(last.input.arg.v)]_vars

(* a load that returned the value stored into slot 0 while slot 1 of the    *)
(* same address kept a different value                                      *)
C15_Witness ==
    /\ last.kind = "cheat"
    /\ last.input.op = "Load"
    /\ last.input.arg = [a |-> "D", k |-> 0]
    /\ last.res.output = Word(1)
    /\ storage[<<"D", 1>>] = 0
    /\ storage[<<"C", 0>>] = 0

(* C16: deal(a, v) leaves the balance of a equal to v, whatever it was, and *)
(* leaves the balance of every other address as it was.                     *)
C16_Deal ==
    [][CheatStep("Deal") =>
         /\ balance'[last'.input.arg.a] = last'.input.arg.v
         /\ \A b \in Accounts \ {last'.input.arg.a} : balance'[b] = balance[b]
         /\ last'.res = Stopped(<<>>)]_vars

(* a deal of 2 to an address that held 1, and a deal of 0 to another *)
C16_Witness ==
    /\ last.kind = "cheat"
    /\ last.input.op = "Deal"
    /\ last.input.arg = [a |-> "D", v |-> 2]
    /\ balance["D"] = 2
    /\ balance["C"] = 0
    /\ balance["X"] = 1

(* C17: ffi gate.  With enable_ffi false every ffi call, the one with an    *)
(* empty argument list included, returns Revert with the gate message,      *)
(* spawns no process and changes no state; a process is spawned only by an  *)
(* ffi call made with enable_ffi true.                                      *)
C17_FfiGate ==
    [][/\ (CheatStep("Ffi") /\ ~enable_ffi) =>
            /\ last'.res = evm_error(MsgFfiDisabled)
            /\ ~aborted'
            /\ spawned' = spawned
            /\ UNCHANGED <<storage, balance, code, cheats, expected_revert,
                           next_msg_sender, msg_sender, depth, stack, gasometer,
                           console_logs, logs>>
       /\ spawned' # spawned => (CheatStep("Ffi") /\ enable_ffi)]_vars

(* an ffi call with an empty argument list, rejected at the gate *)
C17_Witness ==
    /\ last.kind = "cheat"
    /\ last.input.op = "Ffi"
    /\ last.input.arg.args = <<>>
    /\ ~enable_ffi
    /\ last.res = evm_error(MsgFfiDisabled)
    /\ spawned = {}

(* C18: every intercepted failure is an EVM Revert returned to the caller   *)
(* and the executor never aborts: a cheatcode input that does not decode,   *)
(* ffi with no arguments, ffi that cannot be spawned, ffi whose stdout is   *)
(* shorter than two bytes or is not hex after them, a zero or out-of-range  *)
(* private key, a rejected prank, startPrank or expectRevert, and a call    *)
(* under an expected revert that does not revert with the expected data.    *)
C18_FailuresRevert ==
    /\ ~aborted
    /\ (last.kind = "cheat" /\ last.input.op = "Bad") => last.res.reason = "Revert"
    /\ (/\ last.kind = "cheat"
        /\ last.input.op = "Ffi"
        /\ \/ last.input.arg.args = <<>>
           \/ ~last.input.arg.spawnOk
           \/ Len(last.input.arg.stdout) < 2
           \/ HexDecode(SubSeq(last.input.arg.stdout, 3, Len(last.input.arg.stdout))) = None)
       => last.res.reason = "Revert"
    /\ (/\ last.kind = "cheat"
        /\ last.input.op \in {"Addr", "Sign"}
        /\ last.input.arg # "valid")
       => last.res.reason = "Revert"
    /\ (/\ last.kind = "cheat"
        /\ last.input.op \in {"Prank", "StartPrank", "ExpectRevert"}
        /\ last.res.reason # "Succeed")
       => last.res.reason = "Revert"
    /\ (/\ last.kind = "call"
        /\ last.expected # None
        /\ ~(/\ last.inner.reason = "Revert"
             /\ \/ last.inner.output = last.expected[1]
                \/ last.inner.output = ERROR_SELECTOR \o AbiEncodeBytes(last.expected[1])))
       => last.final.reason = "Revert"

(* C12: every call made by running code goes through the dispatcher.  Every *)
(* running frame, the init code of a nested CREATE included, runs against   *)
(* the cheatcode handler; no call is answered by the wrapped handler, so a  *)
(* call to a reserved address is never run as code and no call is made      *)
(* while a prank or an expected revert stays unapplied.                     *)
C12_EveryCallDispatched ==
    /\ \A i \in 1..Len(stack) : stack[i].hooked
    /\ last.kind \notin {"wrapped_call", "wrapped_enter"}

(* C13: substate pairing.  Between handler operations the substate depth is *)
(* that of the running frames: every call_inner and create_inner that has   *)
(* returned has left the depth it found, and each one still running holds   *)
(* exactly one substate.                                                    *)
C13_SubstatePaired ==
    /\ depth = (IF stack = <<>> THEN None ELSE Some(Len(stack) - 1))
    /\ Len(parents) = Len(stack)

(* a dispatched call that call_inner answered with a gasometer failure or   *)
(* with CallTooDeep                                                         *)
NativeFailure ==
    /\ last.kind = "call"
    /\ last.early
    /\ last.inner.reason = "Error"
    /\ last.inner.kind \in {"OutOfGas", "CallTooDeep"}

(* C19 (as stated): a gasometer failure or CallTooDeep raised by call_inner *)
(* is what the dispatcher returns, with empty output, whether or not an     *)
(* expected revert was pending.                                             *)
C19_NativeAlways == NativeFailure => (last.final = last.inner /\ last.final.output = <<>>)

(* C19 (amended): a gasometer failure or CallTooDeep raised by call_inner   *)
(* is returned by the dispatcher as it is, with empty output, when no       *)
(* expected revert was pending at the call; when one was pending the        *)
(* dispatcher returns Revert with the message that the call did not revert. *)
C19_NativeUnlessExpected ==
    NativeFailure =>
      IF last.expected = None
      THEN last.final = last.inner /\ last.final.output = <<>>
      ELSE last.final = evm_error(MsgDidNotRevert)

(* a call that ran out of gas under an expected revert *)
C19_Witness ==
    /\ NativeFailure
    /\ last.inner.kind = "OutOfGas"
    /\ last.expected # None
    /\ last.final.reason = "Revert"

(* a step that hands a call to call_inner *)
DispatchStep == last'.kind = "enter" \/ (last'.kind = "call" /\ last'.early)

(* C20: lifecycle of the extensions.  A set msg_sender becomes unset only   *)
(* on a stopPrank step; a set next_msg_sender and a set expected_revert     *)
(* become unset only on a step that dispatches a call.  No exit of a frame, *)
(* create, console call, clear_logs or rejected cheatcode unsets them.      *)
C20_Lifecycle ==
    [][/\ (msg_sender # None /\ msg_sender' = None) => CheatStep("StopPrank")
       /\ (next_msg_sender # None /\ next_msg_sender' = None) => DispatchStep
       /\ (expected_revert # None /\ expected_revert' = None) => DispatchStep]_vars

(* the callee that set all three has failed and they are still set *)
C20_Witness ==
    /\ last.kind = "call"
    /\ ~last.early
    /\ last.inner.reason = "Error"
    /\ msg_sender # None
    /\ next_msg_sender # None
    /\ expected_revert # None

(* C21: console log.  A console call that decodes appends its one entry to *)
(* console_logs and returns Succeed(Stopped) with empty output; one that    *)
(* does not decode returns Revert and leaves console_logs as it was; and no *)
(* step, clear_logs and the exit of a reverting or failing frame included,  *)
(* removes or reorders an entry: the old console_logs is a prefix of the    *)
(* new one.                                                                 *)
C21_ConsoleAppendOnly ==
    [][/\ (last'.kind = "console" /\ last'.decodes) =>
            /\ console_logs' = Append(console_logs, last'.text)
            /\ last'.res = Result("Succeed", "Stopped", <<>>)
       /\ (last'.kind = "console" /\ ~last'.decodes) =>
            /\ console_logs' = console_logs
            /\ last'.res.reason = "Revert"
       /\ Len(console_logs') >= Len(console_logs)
       /\ SubSeq(console_logs', 1, Len(console_logs)) = console_logs]_vars

(* the frame that logged to the console has reverted, the logs were         *)
(* cleared, and the entry is still there                                    *)
C21_Witness ==
    /\ last.kind = "clear_logs"
    /\ console_logs = <<"b", "a">>
    /\ logs = <<>>

(* C22: logs().  The result is the texts of the recognized events in the    *)
(* order of emission, whichever contract emitted them, with the events of   *)
(* no known schema left out, followed by the console entries in the order   *)
(* of insertion: every console entry comes after every event.               *)
C22_LogsOrder ==
    last.kind = "logs" =>
      LET res == last.res
          n == Len(res) - Len(console_logs)
          kept == {i \in 1..Len(logs) : logs[i].known}
      IN /\ n = Cardinality(kept)
         /\ \A j \in 1..Len(console_logs) : res[n + j] = console_logs[j]
         /\ \A i \in kept :
              res[Cardinality({h \in kept : h <= i})] = logs[i].text

(* a console entry made before two events, one of them emitted by the       *)
(* callee, is returned after both                                           *)
C22_Witness ==
    /\ last.kind = "logs"
    /\ console_logs = <<"a">>
    /\ Len(logs) = 2
    /\ logs[1].address = "C" /\ logs[1].text = "x" /\ logs[1].known
    /\ logs[2].address = "D" /\ logs[2].text = "y" /\ logs[2].known
    /\ last.res = <<"x", "y", "a">>

C24_RewriteOrder ==
    [][DispatchStep =>
        LET d == last'.d
        IN /\ d.eff.ctx.address = d.nat.ctx.address
           /\ d.eff.ctx.apparent_value = d.nat.ctx.apparent_value
           /\ (d.eff.transfer = None) <=> (d.nat.transfer = None)
           /\ d.nat.transfer # None =>
                /\ d.eff.transfer[1].target = d.nat.transfer[1].target
                /\ d.eff.transfer[1].value = d.nat.transfer[1].value
                /\ d.eff.transfer[1].source = d.eff.ctx.caller
           /\ (d.matched /\ d.hadNext) =>
                /\ d.eff.ctx.caller = next_msg_sender[1]
                /\ next_msg_sender' = None
                /\ msg_sender' = msg_sender]_vars

(* a value call of the test contract entered while startPrank(X) matched    *)
(* and prank(C) was pending: it runs with caller C, paid by C               *)
C24_Witness ==
    /\ last.kind = "enter"
    /\ last.d.matched
    /\ last.d.hadNext
    /\ last.d.impersonated = Some("X")
    /\ last.d.next = Some("C")
    /\ last.d.eff.ctx.caller = "C"
    /\ last.d.eff.transfer # None
    /\ last.d.eff.transfer[1].source = "C"
    /\ next_msg_sender = None
    /\ msg_sender # None

(* the latest operation went through call_inner with its gas in numbers *)
Metered == "gas" \in DOMAIN last

RECURSIVE Sum(_)
Sum(costs) == IF costs = <<>> THEN 0 ELSE costs[1] + Sum(Tail(costs))

(* the result call_inner handed back when it returned without running code *)
EarlyResult == IF last.kind = "transact" THEN last.res ELSE last.inner

(* C25: gas limit of a call.  With g the caller's remaining gas, after_gas  *)
(* is g - floor(g/64) when take_l64 and call_l64_after_gas are set and g    *)
(* otherwise; the limit before any stipend is min(target_gas or after_gas,  *)
(* after_gas), at most g; in estimate mode floor(g/64) is recorded as a     *)
(* cost before the limit is.  When recording fails, call_inner returns the  *)
(* gasometer's error with empty output, and no substate was entered, no     *)
(* transfer applied and no code run.                                        *)
C25_GasLimit ==
    [][Metered' =>
        LET m == last'.meter
            out == last'.gas
            g == GasOf(m.gm)
            wants == last'.take_l64 /\ m.config.call_l64_after_gas
            after == IF wants THEN g - (g \div 64) ELSE g
            offered == IF m.target_gas # None THEN m.target_gas[1] ELSE after
        IN IF out.ok
           THEN /\ out.after_gas = after
                /\ out.gas_limit = Min(offered, after)
                /\ out.gas_limit <= g
                /\ out.recorded = IF wants /\ m.config.estimate
                                  THEN <<g \div 64, out.gas_limit>>
                                  ELSE <<out.gas_limit>>
                /\ GasOf(out.gm) = g - Sum(out.recorded)
           ELSE /\ last'.kind \in {"call", "transact"}
                /\ EarlyResult' = Result("Error", "OutOfGas", <<>>)
                /\ out.gm.failed
                /\ gasometer' = "failed"
                /\ UNCHANGED <<depth, parents, stack, storage, balance, code, logs>>]_vars

(* a dispatched call in estimate mode from a caller with MaxGas left,       *)
(* offering 100: floor(g/64) and then 100 are recorded                      *)
C25_Witness ==
    /\ Metered
    /\ last.kind = "enter"
    /\ last.gas.ok
    /\ last.meter.config.call_l64_after_gas
    /\ last.meter.config.estimate
    /\ GasOf(last.meter.gm) = MaxGas
    /\ last.meter.target_gas = Some(100)
    /\ last.gas.after_gas = MaxGas - (MaxGas \div 64)
    /\ last.gas.recorded = <<MaxGas \div 64, 100>>

(* C26: call stipend.  The substate is entered with the gas limit plus the  *)
(* configured stipend, saturating at the maximum, exactly when take_stipend *)
(* is set and a transfer of non-zero value is present; the costs recorded   *)
(* against the caller never include the stipend.  A call through the        *)
(* dispatcher asks for the stipend, transact_call does not.                 *)
C26_Stipend ==
    (Metered /\ last.gas.ok) =>
        LET m == last.meter
            out == last.gas
            wants == last.take_l64 /\ m.config.call_l64_after_gas
            paid == last.transfer # None /\ last.transfer[1].value # 0
            sum == out.gas_limit + m.config.call_stipend
        IN /\ last.take_stipend = (last.kind \in {"enter", "call"})
           /\ out.stipend = (last.take_stipend /\ paid)
           /\ out.entered = IF out.stipend
                            THEN IF sum > MaxGas THEN MaxGas ELSE sum
                            ELSE out.gas_limit
           /\ m.gm.used_gas + out.gas_limit
                + (IF wants /\ m.config.estimate
                   THEN GasOf(m.gm) \div 64 ELSE 0) = out.gm.used_gas

(* a dispatched value call that offers all of the caller's gas: the stipend *)
(* saturates                                                                *)
C26_Witness ==
    /\ Metered
    /\ last.kind = "enter"
    /\ last.gas.ok
    /\ last.gas.stipend
    /\ last.gas.gas_limit = MaxGas
    /\ last.meter.config.call_stipend > 0
    /\ last.gas.entered = MaxGas

(* a step in which the runtime of a call exits *)
ExitStep == "runtime" \in DOMAIN last'

(* a step in which call_inner returns without running code *)
EarlyStep ==
    /\ "exited" \in DOMAIN last'
    /\ ~ExitStep
    /\ last'.kind \in {"call", "transact"}

(* C27: exits of call_inner.  Succeed exits the substate as Succeeded with  *)
(* the return value; Error as Failed with empty output; Revert as Reverted  *)
(* with the return value; Fatal marks the gasometer failed and exits as     *)
(* Failed with empty output.  Only a Succeeded exit keeps what the frame    *)
(* logged.  CallTooDeep and a failed transfer exit as Reverted with no      *)
(* frame started, and a call beyond the depth limit is answered with        *)
(* CallTooDeep whatever its transfer would do.                              *)
C27_ExitMapping ==
    [][/\ ExitStep =>
            LET x == last'.runtime
                res == IF last'.kind = "call" THEN last'.inner ELSE last'.res
            IN /\ res.reason = x.reason
               /\ res.kind = x.kind
               /\ last'.exited = (CASE x.reason = "Succeed" -> "Succeeded"
                                    [] x.reason = "Error" -> "Failed"
                                    [] x.reason = "Revert" -> "Reverted"
                                    [] x.reason = "Fatal" -> "Failed")
               /\ res.output = IF x.reason \in {"Succeed", "Revert"} THEN x.data ELSE <<>>
               /\ x.reason = "Fatal" => last'.gasometer = "failed"
               /\ x.reason # "Fatal" => last'.gasometer = gasometer
               /\ logs' = IF x.reason = "Succeed" THEN logs
                          ELSE parents[Len(parents)].saved.logs
               /\ Len(stack') = Len(stack) - 1
               /\ depth' = ExitSubstate(depth)
       /\ EarlyStep =>
            LET res == IF last'.kind = "call" THEN last'.inner ELSE last'.res
            IN /\ res.kind \in {"CallTooDeep", "OutOfFund"} =>
                    /\ last'.exited = "Reverted"
                    /\ res.reason = "Error"
                    /\ res.output = <<>>
                    /\ UNCHANGED <<stack, depth, parents, logs>>
               /\ (depth # None /\ depth[1] + 1 > CallStackLimit) =>
                    res.kind = "CallTooDeep"
               /\ res.kind = "OutOfFund" =>
                    (depth = None \/ depth[1] + 1 <= CallStackLimit)]_vars

(* the callee logged an event and its runtime ended with a fatal error: the *)
(* event is gone, the caller goes on                                        *)
C27_Witness ==
    /\ last.kind = "call"
    /\ ~last.early
    /\ last.runtime.reason = "Fatal"
    /\ last.exited = "Failed"
    /\ last.gasometer = "failed"
    /\ last.inner.output = <<>>
    /\ logs = <<>>
    /\ Len(stack) = 1

(* a step in which create_inner returns without running the init code *)
CreateEarlyStep == last'.kind = "create" /\ last'.early

(* a step in which the init code of a creation exits *)
CreateExitStep == last'.kind = "create" /\ ~last'.early

(* C28: early returns of create_inner.  CallTooDeep and OutOfFund (balance  *)
(* of the caller below the value) are returned before any cost is recorded, *)
(* any nonce incremented, any substate entered and any value transferred:   *)
(* the step only marks the caller and the new address accessed.  A creation *)
(* beyond the depth limit is answered with CallTooDeep whatever else holds. *)
C28_CreateEarly ==
    [][CreateEarlyStep =>
        /\ (depth # None /\ depth[1] > CallStackLimit) =>
              last'.res.kind = "CallTooDeep"
        /\ (\/ last'.res.kind = "CallTooDeep"
            \/ last'.res.kind = "OutOfFund" /\ last'.exited = "NotEntered") =>
              /\ last'.res = CreateResult("Error", last'.res.kind, None, <<>>)
              /\ nonce' = nonce
              /\ gasometer' = gasometer
              /\ accessed' = accessed \cup {last'.caller, NewAddress}
              /\ UNCHANGED <<depth, parents, stack, storage, balance, code, logs>>]_vars

(* the init code of a creation at depth 2 tried to create a contract: the   *)
(* creation is too deep, the two addresses are marked, no nonce moved       *)
C28_Witness ==
    /\ last.kind = "create"
    /\ last.early
    /\ last.res.kind = "CallTooDeep"
    /\ depth # None
    /\ depth[1] > CallStackLimit
    /\ last.caller = NewAddress
    /\ NewAddress \in accessed
    /\ nonce[NewAddress] = 1

(* C29: the caller's nonce.  The caller's nonce is incremented before the   *)
(* substate is entered: when the creation then fails with CreateCollision   *)
(* or a failed transfer, or its init code ends with Revert, Error or Fatal, *)
(* the substate is exited as Failed or Reverted, no code is set, no address *)
(* is returned, and the caller's nonce is one higher than before.           *)
C29_NoncePersists ==
    [][/\ (CreateEarlyStep /\ last'.exited # "NotEntered") =>
            /\ last'.res.kind \in {"CreateCollision", "OutOfFund"}
            /\ last'.exited = (IF last'.res.kind = "CreateCollision"
                                THEN "Failed" ELSE "Reverted")
            /\ last'.res.address = None
            /\ code' = code
            /\ nonce' = [nonce EXCEPT ![last'.caller] = nonce[last'.caller] + 1]
       /\ last'.kind = "create_enter" =>
            /\ parents'[Len(parents')].saved.nonce =
                 [nonce EXCEPT ![last'.caller] = nonce[last'.caller] + 1]
            /\ nonce'[last'.caller] >= nonce[last'.caller] + 1
       /\ (CreateExitStep /\ last'.runtime.reason # "Succeed") =>
            /\ last'.exited = (IF last'.runtime.reason = "Revert"
                                THEN "Reverted" ELSE "Failed")
            /\ last'.res.address = None
            /\ code' = parents[Len(parents)].saved.code
            /\ nonce' = parents[Len(parents)].saved.nonce]_vars

(* the top-level creation reverted: nothing was created, the sender's nonce *)
(* is 1                                                                     *)
C29_Witness ==
    /\ last.kind = "create"
    /\ ~last.early
    /\ last.runtime.reason = "Revert"
    /\ last.exited = "Reverted"
    /\ last.res.address = None
    /\ stack = <<>>
    /\ code[NewAddress] = <<>>
    /\ nonce[last.caller] = 1
    /\ nonce[NewAddress] = 0

DeployRefused(x, cfg, deploy) ==
    /\ x.reason = "Succeed"
    /\ \/ cfg.disallow_executable_format /\ x.data # <<>> /\ x.data[1] = 239
       \/ cfg.create_contract_limit # None /\ Len(x.data) > cfg.create_contract_limit[1]
       \/ deploy = "DepositFail"

TransactStep ==
    /\ stack = <<>>
    /\ last'.kind \in {"transact", "transact_enter", "transact_refused"}

(* C32: the top-level transact_call bypasses the dispatcher.  It hands the  *)
(* transaction's own context to call_inner with take_l64 and take_stipend   *)
(* false, whatever the address: a transaction to CHEATCODE_ADDRESS or       *)
(* CONSOLE_ADDRESS starts a runtime at that address and changes neither the *)
(* cheat overlay nor the console logs; pending next_msg_sender, msg_sender  *)
(* and expected_revert stay as they are and are not applied to the frame,   *)
(* and the result of the top-level frame is not compared with a pending     *)
(* expected revert.  The caller's nonce is incremented once, and not at all *)
(* when recording the transaction cost fails.                               *)
C32_TopLevelBypass ==
    [][/\ TransactStep =>
            /\ expected_revert' = expected_revert
            /\ next_msg_sender' = next_msg_sender
            /\ msg_sender' = msg_sender
            /\ cheats' = cheats
            /\ console_logs' = console_logs
            /\ storage' = storage
            /\ spawned' = spawned
            /\ IF last'.kind = "transact_refused"
               THEN /\ nonce' = nonce
                    /\ stack' = <<>>
                    /\ depth' = depth
                    /\ last'.res = Result("Error", "OutOfGas", <<>>)
               ELSE /\ nonce' = [nonce EXCEPT ![last'.caller] = nonce[last'.caller] + 1]
                    /\ last'.entry.take_l64 = FALSE
                    /\ last'.entry.take_stipend = FALSE
                    /\ last'.entry.code_address = last'.address
                    /\ last'.entry.ctx.caller = last'.caller
                    /\ last'.entry.ctx.address = last'.address
                    /\ last'.entry.transfer[1].source = last'.caller
                    /\ last'.kind = "transact_enter" =>
                         /\ Len(stack') = 1
                         /\ stack'[1].via = "top"
                         /\ stack'[1].ctx = last'.entry.ctx
                         /\ stack'[1].expected = None
       /\ (stack # <<>> /\ Top.via = "top" /\ last'.kind = "transact") =>
            /\ last'.res = CallInnerExit(last'.runtime)
            /\ expected_revert' = expected_revert
            /\ next_msg_sender' = next_msg_sender]_vars

(* a second transaction, to CHEATCODE_ADDRESS, has started while a prank    *)
(* and an expected revert of the first are pending: the frame runs for the  *)
(* transaction's caller and both are still pending                          *)
C32_Witness ==
    /\ last.kind = "transact_enter"
    /\ last.address = CHEATCODE_ADDRESS
    /\ last.caller = "D"
    /\ next_msg_sender = Some("X")
    /\ expected_revert # None
    /\ Len(stack) = 1
    /\ stack[1].ctx.caller = "D"
    /\ stack[1].ctx.address = CHEATCODE_ADDRESS
    /\ nonce["D"] = 1
    /\ nonce["X"] = 1
    /\ cheats = NoCheats
    /\ console_logs = <<>>

(* a step in which the runtime of a call under an expected revert exits *)
ExpectedExitStep == last'.kind = "call" /\ ~last'.early /\ last'.expected # None

(* C33: expected reverts and the substate.  The substate of a call under an *)
(* expected revert is exited by call_inner before the result is compared:   *)
(* a revert that is turned into Succeed(Returned) leaves storage, balances  *)
(* (the value transferred to the callee included), code and logs as they    *)
(* were when the call was entered, and a call that succeeds keeps what it   *)
(* changed although its caller is answered with the revert "Expected revert *)
(* call did not revert".                                                    *)
C33_RollbackUnderExpect ==
    [][ExpectedExitStep =>
        LET saved == parents[Len(parents)].saved
            inner == last'.inner
            final == last'.final
        IN /\ final.reason = "Succeed" =>
                /\ inner.reason = "Revert"
                /\ final = Result("Succeed", "Returned", DUMMY_OUTPUT)
           /\ inner.reason = "Revert" =>
                /\ last'.exited = "Reverted"
                /\ storage' = saved.storage
                /\ balance' = saved.balance
                /\ code' = saved.code
                /\ logs' = saved.logs
           /\ inner.reason = "Succeed" =>
                /\ final = evm_error(MsgDidNotRevert)
                /\ last'.exited = "Succeeded"
                /\ storage' = storage
                /\ balance' = balance
                /\ code' = code
                /\ logs' = logs]_vars

(* a call that carried value to D reverted as expected: the caller was      *)
(* answered with success, the value is back with the caller and no event    *)
(* of the callee is in the logs                                             *)
C33_Witness ==
    /\ last.kind = "call"
    /\ ~last.early
    /\ last.expected # None
    /\ last.inner.reason = "Revert"
    /\ last.final = Result("Succeed", "Returned", DUMMY_OUTPUT)
    /\ last.exited = "Reverted"
    /\ Len(stack) = 1
    /\ balance["D"] = 1
    /\ balance["C"] = 1
    /\ logs = <<>>

====
